---- MODULE Spec2Model ----
\* Step-segment scheduling and execution engine of RepRapFirmware (class Move):
\* the active list of DriveMovements, AddLinearSegments, the step ISR
\* (Interrupt / StepDrivers), the endstop check and the hiccup mechanism.
EXTENDS Integers, Naturals, Sequences, FiniteSets, TLC

\* ---------------------------------------------------------------------------
\* Bounds of the model
\* ---------------------------------------------------------------------------
\* step-timer width in bits (uint32_t in the firmware, narrowed for checking)
TimerBits == 6
\* number of raw timer ticks that may elapse in one behaviour
MaxTime == 4
\* number of AddLinearSegments calls in one behaviour
MaxMoves == 1
\* longest phase of a profile handed to the segment builder, in half ticks
MaxClocks == 3

\* ---------------------------------------------------------------------------
\* Program constants
\* ---------------------------------------------------------------------------
MaxAxesPlusExtruders == 2
NumDirectDrivers == 1
MaxStepInterruptTime == 2
HiccupTime == 2
HiccupIncrement == 1

Modulus == 2 ^ TimerBits
HalfModulus == Modulus \div 2
\* the raw timer starts two ticks before it wraps to zero
TimerStart == Modulus - 2

NULL == 0 - 1
Drives == 0 .. (MaxAxesPlusExtruders + NumDirectDrivers - 1)
LogicalDrives == 0 .. (MaxAxesPlusExtruders - 1)

\* Local drivers: drive 0 is an axis with two motors, the others have one each.
Drivers == 0 .. 3
GetDriversBitmap(drive) == IF drive = 0 THEN {0, 1} ELSE {drive + 1}

\* DMState: idle < step-error states < firstMotionState <= motion states
DMStates == {"idle", "stepError", "moving"}
IsMotionState(s) == s = "moving"

\* ---------------------------------------------------------------------------
\* Timer arithmetic
\* ---------------------------------------------------------------------------
\* (int32_t)(a - b) of two timer values
SDiff(a, b) ==
    LET d == (a - b) % Modulus
    IN  IF d >= HalfModulus THEN d - Modulus ELSE d

TAdd(a, n) == (a + n) % Modulus

\* ---------------------------------------------------------------------------
\* State
\* ---------------------------------------------------------------------------
VARIABLES
    dms,            \* DriveMovement dms[]: one record per drive
    activeDMs,      \* head of the active list (a drive number or NULL)
    stepErrors,     \* Move::stepErrors
    numHiccups,     \* Move::numHiccups
    motorPositionsAfterScheduledMoves,
    steppingEnabled,\* Platform's stepping-enabled drivers bitmap, as a set
    ticks,          \* StepTimer::GetTimerTicks()
    movementDelay,  \* StepTimer::movementDelay
    timer,          \* Move::timer: [armed, when]
    isr,            \* position of the step ISR: [pc, now, isrStartTime, hiccupTime]
    task,           \* position of the Move task inside AddLinearSegments
    elapsed,        \* raw ticks elapsed so far
    movesAdded,     \* AddLinearSegments calls so far
    motorSteps,     \* net steps each driver has been pulsed, in the drive's direction
    stoppedDrives,  \* drives an endstop check removed from the active list
    wakeups,        \* number of WakeMoveTaskFromISR calls
    directionPins,  \* direction output of each drive, as last set by SetDirection
    lastCycle       \* record of the most recent StepDrivers cycle

\* MoveSegment's free list and the two contexts that allocate and release
VARIABLES
    segNext,        \* MoveSegment::next of each node (NULL: none)
    freeList,       \* MoveSegment::freeList
    numCreated,     \* MoveSegment::numCreated
    heapUsed,       \* nodes handed out by operator new so far
    irqMasked,      \* the task is between IrqSave and IrqRestore
    alloc           \* per context: [pc, ms, item, chain]

\* A task inside a section of code that shuts out the step interrupt
VARIABLES
    section         \* [held, pc, hits]

\* Emergency stop
VARIABLES
    halt            \* [stopped: reprap.IsStopped(), exited: Move::Exit has run]

\* MoveLoop's idle-current state machine
VARIABLES
    loop            \* [pc, moveState, whenIdleTimerStarted, millis, ringsIdle, paused,
                    \*  driversIdle, sinceTiming, busySinceTiming]

\* The step and direction outputs of a slow driver
VARIABLES
    pins            \* [pc, raw, lastStepPulseTime, lastStepLowTime, lastDirChangeTime, step, dir,
                    \*  directionChanged, sinceFall, sinceDir]

\* Move::Diagnostics in the Main task
VARIABLES
    diag            \* [pc, stepErrors, numHiccups: the values last reported]

\* The calls an endstop check makes, in order
VARIABLES
    homing          \* [pc, hits, dda, log]

\* The filament monitor's reading of the steps an extruder has moved
VARIABLES
    extr            \* [pc, held, ret, adjustment, acc: movementAccumulators[drive],
                    \*  total, lastReturn, netAtReturn: what the calls have returned]

\* The cache of live machine coordinates
VARIABLES
    live            \* [pc, forceLiveCoordinatesUpdate, liveCoordinatesValid, motionAdded,
                    \*  sinceFetch: millis() - latestLiveCoordinatesFetchedAt, motionPending,
                    \*  and what the call under way has done]

\* The variables of the step machine, and those of the parts beside it
machineVars == <<dms, activeDMs, stepErrors, numHiccups, motorPositionsAfterScheduledMoves,
                 steppingEnabled, ticks, movementDelay, timer, isr, task,
                 elapsed, movesAdded, motorSteps, stoppedDrives, wakeups, directionPins,
                 lastCycle>>
poolVars == <<segNext, freeList, numCreated, heapUsed, irqMasked, alloc>>
auxVars == <<poolVars, section, halt, loop, pins, diag, homing, extr, live>>
vars == <<machineVars, auxVars>>

\* For each part beside the step machine, the variables of the other parts
besidePool == <<machineVars, section, halt, loop, pins, diag, homing, extr, live>>
besideSection == <<poolVars, halt, loop, pins, diag, homing, extr, live>>
besideHalt == <<poolVars, section, loop, pins, diag, homing, extr, live>>
besideLoop == <<poolVars, section, halt, pins, diag, homing, extr, live>>
besidePins == <<poolVars, section, halt, loop, diag, homing, extr, live>>
besideDiag == <<poolVars, section, halt, loop, pins, homing, extr, live>>
besideHoming == <<poolVars, section, halt, loop, pins, diag, extr, live>>
besideExtr == <<poolVars, section, halt, loop, pins, diag, homing, live>>
besideLive == <<poolVars, section, halt, loop, pins, diag, homing, extr>>

\* StepTimer::GetMovementTimerTicks()
GetMovementTimerTicks(t, delay) == (t - delay) % Modulus

\* ---------------------------------------------------------------------------
\* MoveSegment: the free list, with Allocate and ReleaseAll called from the
\* Move task and from the step ISR. The ISR may pre-empt the task wherever
\* interrupts are enabled and runs to completion.
\* ---------------------------------------------------------------------------
MaxSegments == 3

Nodes == 1..(MaxSegments + 2)
Contexts == {"task", "isr"}

\* The millisecond clock is kept modulo MillisModulus; the time since the
\* timing state was entered is followed up to MaxIdleMillis
MillisModulus == 8
MaxIdleMillis == 10
DefaultIdleTimeout == 3

\* Move::Init: moveState idle, whenIdleTimerStarted = millis(); the rings are
\* empty and the motors have not been put in idle hold
LoopInit ==
    [pc |-> "read", moveState |-> "idle", whenIdleTimerStarted |-> MillisModulus - 1,
     millis |-> MillisModulus - 1, ringsIdle |-> TRUE, paused |-> FALSE,
     driversIdle |-> FALSE, sinceTiming |-> 0, busySinceTiming |-> FALSE]

\* The raw step clock is kept modulo PinModulus; the time since an edge is
\* followed up to MaxPinTicks
PinModulus == 8
MaxPinTicks == 9
SlowDriverStepLowClocks == 1
SlowDriverStepHighClocks == 1
SlowDriverDirSetupClocks == 2
SlowDriverDirHoldClocksFromTrailingEdge == 3

\* No pulse has been made and no direction set
PinsInit ==
    [pc |-> "idle", raw |-> PinModulus - 2, lastStepPulseTime |-> 0, lastStepLowTime |-> 0,
     lastDirChangeTime |-> 0,
     step |-> FALSE, dir |-> TRUE, directionChanged |-> FALSE,
     sinceFall |-> MaxPinTicks, sinceDir |-> MaxPinTicks]

\* No task is inside such a section
SectionNone == [held |-> FALSE, pc |-> "none", hits |-> <<>>]

AllocIdle == [pc |-> "idle", ms |-> NULL, item |-> NULL, chain |-> NULL]

PoolInit ==
    /\ segNext = [n \in Nodes |-> NULL]
    /\ freeList = NULL
    /\ numCreated = 0
    /\ heapUsed = 0
    /\ irqMasked = FALSE
    /\ alloc = [c \in Contexts |-> AllocIdle]

\* The nodes of the chain that starts at n, following at most k links
RECURSIVE ChainFrom(_, _, _)
ChainFrom(nxt, n, k) ==
    IF n = NULL \/ k = 0 THEN <<>> ELSE <<n>> \o ChainFrom(nxt, nxt[n], k - 1)

ChainOf(nxt, n) == ChainFrom(nxt, n, MaxSegments + 3)

\* Context c may take a step: the task while no ISR is running, the ISR while
\* the task has interrupts enabled or once it has started
MayRun(c) ==
    IF c = "task" THEN alloc["isr"].pc = "idle"
    ELSE alloc["isr"].pc # "idle" \/ ~irqMasked

\* An IrqSave that leaves interrupts enabled
IrqSave_NoMask(c) == FALSE

\* IrqSave in context c: whether the step ISR is now shut out of the task
IrqSave(c) == c = "task"

\* MoveSegment::Allocate, IrqSave and the read of freeList
AllocateEnter(c) ==
    /\ MayRun(c)
    /\ alloc[c].pc = "idle"
    /\ freeList # NULL \/ numCreated < MaxSegments
    /\ irqMasked' = IrqSave(c)
    /\ alloc' = [alloc EXCEPT ![c].pc = "locked", ![c].ms = freeList]
    /\ UNCHANGED <<segNext, freeList, numCreated, heapUsed>>
    /\ UNCHANGED besidePool

\* MoveSegment::Allocate, the test of ms up to IrqRestore: unlink the first
\* free node, or count a node to be created
AllocateTake(c) ==
    /\ MayRun(c)
    /\ alloc[c].pc = "locked"
    /\ IF alloc[c].ms # NULL
       THEN /\ freeList' = segNext[alloc[c].ms]
            /\ alloc' = [alloc EXCEPT ![c].pc = "link"]
            /\ UNCHANGED numCreated
       ELSE /\ numCreated' = numCreated + 1
            /\ alloc' = [alloc EXCEPT ![c].pc = "new"]
            /\ UNCHANGED freeList
    /\ irqMasked' = FALSE
    /\ UNCHANGED <<segNext, heapUsed>>
    /\ UNCHANGED besidePool

\* MoveSegment::Allocate after IrqRestore: ms->next = p_next, or
\* new MoveSegment(p_next); the caller puts the node at the head of its chain
AllocateReturn(c) ==
    /\ MayRun(c)
    /\ alloc[c].pc \in {"link", "new"}
    /\ LET ms == IF alloc[c].pc = "link" THEN alloc[c].ms ELSE heapUsed + 1
       IN  /\ segNext' = [segNext EXCEPT ![ms] = alloc[c].chain]
           /\ alloc' = [alloc EXCEPT ![c] = [AllocIdle EXCEPT !.chain = ms]]
           /\ heapUsed' = IF alloc[c].pc = "new" THEN heapUsed + 1 ELSE heapUsed
    /\ UNCHANGED <<freeList, numCreated, irqMasked>>
    /\ UNCHANGED besidePool

\* MoveSegment::ReleaseAll(item) called with the context's chain
ReleaseAllEnter(c) ==
    /\ MayRun(c)
    /\ alloc[c].pc = "idle"
    /\ alloc[c].chain # NULL
    /\ alloc' = [alloc EXCEPT ![c].pc = "release", ![c].item = alloc[c].chain,
                              ![c].chain = NULL]
    /\ UNCHANGED <<segNext, freeList, numCreated, heapUsed, irqMasked>>
    /\ UNCHANGED besidePool

\* MoveSegment::Release(item): put the node at the head of the free list
Release(nxt, head, item) ==
    [segNext |-> [nxt EXCEPT ![item] = head], freeList |-> item]

\* One turn of the loop of MoveSegment::ReleaseAll
ReleaseAllStep(c) ==
    /\ MayRun(c)
    /\ alloc[c].pc = "release"
    /\ IF alloc[c].item = NULL
       THEN /\ alloc' = [alloc EXCEPT ![c].pc = "idle"]
            /\ UNCHANGED <<segNext, freeList>>
       ELSE LET itemToRelease == alloc[c].item
                r == Release(segNext, freeList, itemToRelease)
            IN  /\ alloc' = [alloc EXCEPT ![c].item = segNext[itemToRelease]]
                /\ segNext' = r.segNext
                /\ freeList' = r.freeList
    /\ UNCHANGED <<numCreated, heapUsed, irqMasked>>
    /\ UNCHANGED besidePool


\* ---------------------------------------------------------------------------
\* MoveSegment chains and DriveMovement
\* ---------------------------------------------------------------------------
\* A segment is [start, duration, steps, dir, check, bad]: its start time and
\* duration in movement-clock ticks, the whole steps it contributes, the
\* direction, the check-endstops flag, and whether its step-time calculation
\* fails (the drive is then left in a step-error state).

\* Due time of step n (1-based) of a segment
StepTimeIn(seg, n) == TAdd(seg.start, (n * seg.duration) \div seg.steps)

\* Segments that contribute no whole step are released without being walked
RECURSIVE DropEmpty(_)
DropEmpty(segs) ==
    IF segs = <<>> THEN <<>>
    ELSE IF Head(segs).steps = 0 THEN DropEmpty(Tail(segs))
    ELSE segs

\* DriveMovement::NewSegment: make the first segment that has a step current,
\* or go idle when the chain is exhausted
NewSegment(dm, chain) ==
    LET segs == DropEmpty(chain)
    IN  IF segs = <<>>
        THEN [dm EXCEPT !.segments = <<>>, !.state = "idle"]
        ELSE LET seg == Head(segs)
             IN  IF seg.bad
                 THEN [dm EXCEPT !.segments = segs, !.state = "stepError"]
                 ELSE [dm EXCEPT !.segments = segs,
                                 !.state = "moving",
                                 !.nextStep = 1,
                                 !.nextStepTime = StepTimeIn(seg, 1),
                                 !.direction = seg.dir,
                                 !.directionChanged = dm.directionChanged \/ (seg.dir # dm.direction),
                                 !.checkEndstops = seg.check]

\* DriveMovement::ScheduleFirstSegment; it returns true exactly when the
\* resulting state is a motion state
ScheduleFirstSegment(dm) ==
    NewSegment([dm EXCEPT !.directionChanged = TRUE], dm.segments)

\* DriveMovement::CalcNextStepTime, called after a step of this drive has been issued:
\* the step index advances by one and the time of the following step is computed
CalcNextStepTime(dm) ==
    LET stepped == [dm EXCEPT !.motorPos = dm.motorPos + (IF dm.direction THEN 1 ELSE -1)]
    IN  IF dm.segments = <<>>
        THEN NewSegment(stepped, <<>>)
        ELSE IF dm.nextStep < Head(dm.segments).steps
        THEN [stepped EXCEPT !.nextStep = dm.nextStep + 1,
                             !.nextStepTime = StepTimeIn(Head(dm.segments), dm.nextStep + 1)]
        ELSE NewSegment(stepped, Tail(dm.segments))

\* DriveMovement::AddSegment: append to the tail of the drive's chain
AddSegment(dm, seg) == [dm EXCEPT !.segments = Append(dm.segments, seg)]

\* DriveMovement::GetCurrentMotorPosition
GetCurrentMotorPosition(dm) == dm.motorPos

\* ---------------------------------------------------------------------------
\* The active list
\* ---------------------------------------------------------------------------
\* The drives reached from p through nextDM, head first
RECURSIVE ListFrom(_, _, _)
ListFrom(D, p, fuel) ==
    IF p = NULL \/ fuel = 0 THEN <<>>
    ELSE <<p>> \o ListFrom(D, D[p].nextDM, fuel - 1)

ActiveList(D, head) == ListFrom(D, head, Cardinality(Drives) + 1)

SeqToSet(s) == { s[i] : i \in 1 .. Len(s) }

\* InsertDM with an unsigned comparison of the step times
InsertGoesAfter_Unsigned(D, x, dm) == D[x].nextStepTime < D[dm].nextStepTime

\* Move::InsertDM, the loop test: whether the walk passes list member x when
\* inserting dm
InsertGoesAfter(D, x, dm) == SDiff(D[x].nextStepTime, D[dm].nextStepTime) < 0

\* Move::InsertDM, the walk: the last DM of the list from p that the walk passes
RECURSIVE InsertAfter(_, _, _, _)
InsertAfter(D, p, dm, fuel) ==
    LET n == D[p].nextDM
    IN  IF fuel > 0 /\ n # NULL /\ InsertGoesAfter(D, n, dm)
        THEN InsertAfter(D, n, dm, fuel - 1)
        ELSE p

\* An InsertDM that links dm to the DM it goes in after, not to the one that
\* followed it
InsertDM_LinksBack(D, head, dm) ==
    IF head = NULL \/ ~InsertGoesAfter(D, head, dm)
    THEN [dms |-> [D EXCEPT ![dm].nextDM = head], activeDMs |-> dm]
    ELSE LET p == InsertAfter(D, head, dm, Cardinality(Drives))
         IN  [dms |-> [D EXCEPT ![dm].nextDM = p, ![p].nextDM = dm],
              activeDMs |-> head]

\* Move::InsertDM: the record [dms, activeDMs] after inserting dm
InsertDM(D, head, dm) ==
    IF head = NULL \/ ~InsertGoesAfter(D, head, dm)
    THEN [dms |-> [D EXCEPT ![dm].nextDM = head], activeDMs |-> dm]
    ELSE LET p == InsertAfter(D, head, dm, Cardinality(Drives))
         IN  [dms |-> [D EXCEPT ![dm].nextDM = D[p].nextDM, ![p].nextDM = dm],
              activeDMs |-> head]

\* Move::DeactivateDM, the walk: the DM whose nextDM is dmToRemove
RECURSIVE PredOf(_, _, _, _)
PredOf(D, p, dmToRemove, fuel) ==
    IF p = NULL \/ fuel = 0 THEN NULL
    ELSE IF D[p].nextDM = dmToRemove THEN p
    ELSE PredOf(D, D[p].nextDM, dmToRemove, fuel - 1)

\* A DeactivateDM that unlinks the DM together with all that follow it
DeactivateDM_DropsRest(D, head, dmToRemove) ==
    IF head = dmToRemove
    THEN [dms |-> [D EXCEPT ![dmToRemove].state = "idle"], activeDMs |-> NULL]
    ELSE LET p == PredOf(D, head, dmToRemove, Cardinality(Drives))
         IN  IF p = NULL
             THEN [dms |-> D, activeDMs |-> head]
             ELSE [dms |-> [D EXCEPT ![p].nextDM = NULL, ![dmToRemove].state = "idle"],
                   activeDMs |-> head]

\* Move::DeactivateDM: the record [dms, activeDMs] after removing dmToRemove
DeactivateDM(D, head, dmToRemove) ==
    IF head = dmToRemove
    THEN [dms |-> [D EXCEPT ![dmToRemove].state = "idle"],
          activeDMs |-> D[dmToRemove].nextDM]
    ELSE LET p == PredOf(D, head, dmToRemove, Cardinality(Drives))
         IN  IF p = NULL
             THEN [dms |-> D, activeDMs |-> head]
             ELSE [dms |-> [D EXCEPT ![p].nextDM = D[dmToRemove].nextDM,
                                     ![dmToRemove].state = "idle"],
                   activeDMs |-> head]

\* ---------------------------------------------------------------------------
\* Stopping drives and checking endstops
\* ---------------------------------------------------------------------------
\* The operators below transform a record m of the fields they touch:
\* [dms, activeDMs, stepErrors, mpos, steppingEnabled, dirPins]

\* DriveMovement::StopDriver: a drive that is not idle is removed from the
\* active list, forced idle and its chain is released
StopDriver(m, drive) ==
    IF m.dms[drive].state # "idle"
    THEN LET r == DeactivateDM(m.dms, m.activeDMs, drive)
         IN  [m EXCEPT !.dms = [r.dms EXCEPT ![drive].state = "idle",
                                             ![drive].segments = <<>>],
                       !.activeDMs = r.activeDMs]
    ELSE m

\* StopAxisOrExtruder without the update of motorPositionsAfterScheduledMoves
StopAxisOrExtruder_NoRecord(m, logicalDrive) == StopDriver(m, logicalDrive)

\* Move::StopAxisOrExtruder (local drivers)
StopAxisOrExtruder(m, logicalDrive) ==
    LET m1 == StopDriver(m, logicalDrive)
    IN  [m1 EXCEPT !.mpos[logicalDrive] = GetCurrentMotorPosition(m1.dms[logicalDrive])]

\* Move::StopAllDrivers: drives 0 .. MaxAxesPlusExtruders-1 in turn
RECURSIVE StopDrivesFrom(_, _)
StopDrivesFrom(m, drive) ==
    IF drive >= MaxAxesPlusExtruders THEN m
    ELSE StopDrivesFrom(StopAxisOrExtruder(m, drive), drive + 1)

StopAllDrivers(m) == StopDrivesFrom(m, 0)

\* Platform::DisableSteppingDriver
DisableSteppingDriver(m, driver) ==
    [m EXCEPT !.steppingEnabled = m.steppingEnabled \ {driver}]

\* What the Endstops object can report: stop everything, stop one axis, or stop
\* one driver of the two-motor axis
EndstopHitDetails ==
    { [action |-> "stopAll", axis |-> 0, driver |-> 0] }
    \cup { [action |-> "stopAxis", axis |-> a, driver |-> 0] : a \in LogicalDrives }
    \cup { [action |-> "stopDriver", axis |-> 0, driver |-> 0] }

\* What successive calls of Endstops::CheckEndstops report during one check,
\* before it reports that nothing (more) is triggered
HitReports ==
    { <<>> }
    \cup { <<h>> : h \in EndstopHitDetails }
    \cup { <<[action |-> "stopDriver", axis |-> 0, driver |-> 0],
             [action |-> "stopAxis", axis |-> 0, driver |-> 0]>>,
           <<[action |-> "stopAxis", axis |-> 1, driver |-> 0],
             [action |-> "stopAxis", axis |-> 0, driver |-> 0]>> }

\* Move::CheckEndstops: act on the reported hits until none is reported;
\* a stop-all hit returns at once
RECURSIVE CheckEndstops(_, _)
CheckEndstops(m, hits) ==
    IF hits = <<>> THEN m
    ELSE LET hitDetails == Head(hits)
         IN  CASE hitDetails.action = "stopAll" -> StopAllDrivers(m)
               [] hitDetails.action = "stopAxis" ->
                      CheckEndstops(StopAxisOrExtruder(m, hitDetails.axis), Tail(hits))
               [] OTHER ->
                      CheckEndstops(DisableSteppingDriver(m, hitDetails.driver), Tail(hits))

\* ---------------------------------------------------------------------------
\* StepDrivers
\* ---------------------------------------------------------------------------
\* A due test that compares the tick counts as unsigned numbers
StepIsDue_Unsigned(D, d, now) == now >= D[d].nextStepTime

\* Whether the step of DM d is due at time now
StepIsDue(D, d, now) == SDiff(now, D[d].nextStepTime) >= 0

\* The leading DMs of the list from p whose step is due, in list order
RECURSIVE DueFrom(_, _, _, _)
DueFrom(D, p, now, fuel) ==
    IF p = NULL \/ fuel = 0 \/ ~StepIsDue(D, p, now) THEN <<>>
    ELSE <<p>> \o DueFrom(D, D[p].nextDM, now, fuel - 1)

\* A due walk that stops after the head
DueList_HeadOnly(D, head, now) ==
    IF head # NULL /\ StepIsDue(D, head, now) THEN <<head>> ELSE <<>>

DueList(D, head, now) == DueFrom(D, head, now, Cardinality(Drives) + 1)

\* The drivers of a set of drives
DriversOfAll(S) == UNION { GetDriversBitmap(d) : d \in S }

\* StepDrivers without the second walk after the endstop check
DueAfterCheck_Stale(checked, due0, due1) == due0

\* The DMs that are stepped in a cycle: the due list collected before the
\* endstop check (due0), or the one collected again after it (due1)
DueAfterCheck(checked, due0, due1) == IF checked THEN due1 ELSE due0

\* driversStepping collected from the head of the due list only
DriversStepping_HeadOnly(due, enabled) ==
    IF due = <<>> THEN {} ELSE GetDriversBitmap(due[1]) \cap enabled

\* driversStepping: the drivers that get a pulse
DriversStepping(due, enabled) == DriversOfAll(SeqToSet(due)) \cap enabled

\* A re-insertion loop that does not test the DM's state
ReinsertOne_NoStateTest(m, dm) ==
    LET r == InsertDM(m.dms, m.activeDMs, dm)
    IN  [m EXCEPT !.dms = r.dms, !.activeDMs = r.activeDMs]

\* A re-insertion loop that counts every DM it does not re-insert as an error
ReinsertOne_CountIdle(m, dm) ==
    IF IsMotionState(m.dms[dm].state)
    THEN LET r == InsertDM(m.dms, m.activeDMs, dm)
         IN  [m EXCEPT !.dms = r.dms, !.activeDMs = r.activeDMs]
    ELSE [m EXCEPT !.stepErrors = m.stepErrors + 1,
                   !.dms = [m.dms EXCEPT ![dm].state = "idle"]]

\* A re-insertion that leaves the direction output and the flag alone
ReinsertOne_NoSetDirection(m, dm) ==
    LET d == m.dms[dm]
    IN  IF IsMotionState(d.state)
        THEN LET r == InsertDM(m.dms, m.activeDMs, dm)
             IN  [m EXCEPT !.dms = r.dms, !.activeDMs = r.activeDMs]
        ELSE IF d.state # "idle"
        THEN [m EXCEPT !.stepErrors = m.stepErrors + 1,
                       !.dms = [m.dms EXCEPT ![dm].state = "idle"]]
        ELSE m

\* What the re-insertion loop does with one stepped DM
ReinsertOne(m, dm) ==
    LET d == m.dms[dm]
    IN  IF IsMotionState(d.state)
        THEN LET D1 == IF d.directionChanged
                       THEN [m.dms EXCEPT ![dm].directionChanged = FALSE]
                       ELSE m.dms
                 r == InsertDM(D1, m.activeDMs, dm)
             IN  [m EXCEPT !.dms = r.dms,
                           !.activeDMs = r.activeDMs,
                           !.dirPins = IF d.directionChanged
                                       THEN [m.dirPins EXCEPT ![dm] = d.direction]
                                       ELSE m.dirPins]
        ELSE IF d.state # "idle"
        THEN [m EXCEPT !.stepErrors = m.stepErrors + 1,
                       !.dms = [m.dms EXCEPT ![dm].state = "idle"]]
        ELSE m

RECURSIVE ReinsertAll(_, _)
ReinsertAll(m, chain) ==
    IF chain = <<>> THEN m
    ELSE ReinsertAll(ReinsertOne(m, Head(chain)), Tail(chain))

\* Move::StepDrivers with the movement clock reading now on entry and
\* nowAfterCheck when it is read again after the endstop check, which reports
\* hits. The result is [m, cycle]: the new fields and a record of the cycle.
StepDrivers(m, now, nowAfterCheck, hits) ==
    LET due0 == DueList(m.dms, m.activeDMs, now)
        checked == \E i \in 1 .. Len(due0) : m.dms[due0[i]].checkEndstops
        m1 == IF checked THEN CheckEndstops(m, hits) ELSE m
        now1 == IF checked THEN nowAfterCheck ELSE now
        due1 == DueList(m1.dms, m1.activeDMs, now1)
        due == DueAfterCheck(checked, due0, due1)
        driversStepping == DriversStepping(due, m1.steppingEnabled)
        dm == IF due = <<>> THEN m1.activeDMs ELSE m1.dms[due[Len(due)]].nextDM
        D2 == [d \in Drives |-> IF d \in SeqToSet(due) THEN CalcNextStepTime(m1.dms[d])
                                ELSE m1.dms[d]]
        m2 == [m1 EXCEPT !.dms = D2, !.activeDMs = dm]
        m3 == ReinsertAll(m2, due)
    IN  [m |-> m3,
         cycle |-> [due0 |-> SeqToSet(due0),
                    checked |-> checked,
                    removed |-> SeqToSet(ActiveList(m.dms, m.activeDMs))
                                  \ SeqToSet(ActiveList(m1.dms, m1.activeDMs)),
                    dueAll |-> { d \in SeqToSet(ActiveList(m1.dms, m1.activeDMs)) :
                                   StepIsDue(m1.dms, d, now1) },
                    headTime |-> { d \in SeqToSet(ActiveList(m1.dms, m1.activeDMs)) :
                                     m1.dms[d].nextStepTime = m1.dms[m1.activeDMs].nextStepTime },
                    stepped |-> SeqToSet(due),
                    pulsed |-> driversStepping,
                    pulseDir |-> [drv \in Drivers |->
                                    IF drv \in driversStepping
                                    THEN LET d == CHOOSE e \in SeqToSet(due) :
                                                      drv \in GetDriversBitmap(e)
                                         IN  IF m1.dms[d].direction THEN 1 ELSE -1
                                    ELSE 0],
                    enabled |-> m1.steppingEnabled,
                    errors |-> { d \in SeqToSet(due) :
                                   ~IsMotionState(D2[d].state) /\ D2[d].state # "idle" },
                    finished |-> { d \in SeqToSet(due) : D2[d].state = "idle" },
                    rest |-> ListFrom(m1.dms, dm, Cardinality(Drives) + 1),
                    stepErrorsBefore |-> m.stepErrors]]

\* ---------------------------------------------------------------------------
\* SimulateSteppingDrivers
\* ---------------------------------------------------------------------------
\* SimulateSteppingDrivers, the test dueTime >= dm->nextStepTime on the
\* unsigned tick counts: the leading DMs of the list from p that pass it
RECURSIVE SimulatedDueFrom(_, _, _, _)
SimulatedDueFrom(D, p, dueTime, fuel) ==
    IF p = NULL \/ fuel = 0 \/ ~(dueTime >= D[p].nextStepTime) THEN <<>>
    ELSE <<p>> \o SimulatedDueFrom(D, D[p].nextDM, dueTime, fuel - 1)

\* SimulateSteppingDrivers, what the re-insertion loop does with one DM
SimulatedReinsertOne(m, dm) ==
    IF IsMotionState(m.dms[dm].state)
    THEN LET r == InsertDM([m.dms EXCEPT ![dm].directionChanged = FALSE], m.activeDMs, dm)
         IN  [m EXCEPT !.dms = r.dms, !.activeDMs = r.activeDMs]
    ELSE m

RECURSIVE SimulatedReinsertAll(_, _)
SimulatedReinsertAll(m, chain) ==
    IF chain = <<>> THEN m
    ELSE SimulatedReinsertAll(SimulatedReinsertOne(m, Head(chain)), Tail(chain))

\* Move::SimulateSteppingDrivers
SimulateSteppingDrivers(m) ==
    IF m.activeDMs = NULL THEN m
    ELSE LET dueTime == m.dms[m.activeDMs].nextStepTime
             due == SimulatedDueFrom(m.dms, m.activeDMs, dueTime, Cardinality(Drives) + 1)
             dm == m.dms[due[Len(due)]].nextDM
             D2 == [d \in Drives |-> IF d \in SeqToSet(due) THEN CalcNextStepTime(m.dms[d])
                                     ELSE m.dms[d]]
         IN  SimulatedReinsertAll([m EXCEPT !.dms = D2, !.activeDMs = dm], due)

\* The time a set of live coordinates is served for, in units of 100 ms, and
\* how far the time since the last fetch is followed
LiveCoordinatesMaxAge == 2
MaxLiveMillis == 3
\* The largest motor position AdjustMotorPositions is followed to
MaxAdjustment == 1

\* Move.h, the initial values of the live coordinates cache; the coordinates
\* themselves are left out, served tells whether a call computed them afresh
LiveInit ==
    [pc |-> "idle", forceLiveCoordinatesUpdate |-> TRUE, liveCoordinatesValid |-> FALSE,
     motionAdded |-> FALSE, sinceFetch |-> 0,
     motionPending |-> FALSE,
     movesAtRead |-> 0, movesAtFetch |-> 0, addedDuringFetch |-> FALSE,
     markedValid |-> FALSE, addedSinceFetch |-> FALSE, ageAtCall |-> 0, served |-> "none"]

\* Move::Init, movementAccumulators; no call of GetAccumulatedExtrusion yet
ExtrInit ==
    [pc |-> "idle", held |-> FALSE, ret |-> 0, adjustment |-> 0, acc |-> 0,
     total |-> 0, lastReturn |-> 0, netAtReturn |-> 0]

\* ---------------------------------------------------------------------------
\* Initial state
\* ---------------------------------------------------------------------------
IdleDM ==
    [state |-> "idle", nextStepTime |-> 0, nextStep |-> 0, segments |-> <<>>,
     direction |-> TRUE, directionChanged |-> FALSE, checkEndstops |-> FALSE,
     nextDM |-> NULL, motorPos |-> 0]

NoCycle ==
    [due0 |-> {}, checked |-> FALSE, removed |-> {}, dueAll |-> {}, headTime |-> {},
     stepped |-> {}, pulsed |-> {}, pulseDir |-> [drv \in Drivers |-> 0],
     enabled |-> {}, errors |-> {}, finished |-> {},
     rest |-> <<>>, stepErrorsBefore |-> 0]

\* The ISR is not running; noWork tells whether the last call of Interrupt
\* found the active list empty
IsrIdle == [pc |-> "idle", now |-> 0, isrStartTime |-> 0, hiccupTime |-> 0, noWork |-> FALSE]
NoMove ==
    [params |-> [accelClocks |-> 0, steadyClocks |-> 0, decelClocks |-> 0,
                 accelDistance |-> 0, decelStartDistance |-> 0, totalDistance |-> 0,
                 startSpeed |-> 0, topSpeed |-> 0, acceleration |-> 0, deceleration |-> 0],
     dir |-> TRUE, check |-> FALSE, stepsPerMm |-> <<0, 0, 0>>, badAt |-> <<0, 0, 0>>,
     useInputShaping |-> FALSE, shaper |-> <<>>]
TaskIdle == [pc |-> "idle", move |-> NoMove, drive |-> 0, startTime |-> 0,
             oldSegsNull |-> FALSE, calls |-> <<>>]
TimerOff == [armed |-> FALSE, when |-> 0]

\* Move::Init
Init ==
    /\ dms = [d \in Drives |-> IdleDM]
    /\ activeDMs = NULL
    /\ stepErrors = 0
    /\ numHiccups = 0
    /\ motorPositionsAfterScheduledMoves = [d \in LogicalDrives |-> 0]
    /\ steppingEnabled = Drivers
    /\ ticks = TimerStart
    /\ movementDelay = 0
    /\ timer = TimerOff
    /\ isr = IsrIdle
    /\ task = TaskIdle
    /\ elapsed = 0
    /\ movesAdded = 0
    /\ motorSteps = [d \in Drivers |-> 0]
    /\ stoppedDrives = {}
    /\ wakeups = 0
    /\ directionPins = [d \in Drives |-> TRUE]
    /\ lastCycle = NoCycle
    /\ PoolInit
    /\ section = SectionNone
    /\ halt = [stopped |-> FALSE, exited |-> FALSE]
    /\ loop = LoopInit
    /\ pins = PinsInit
    /\ diag = [pc |-> "idle", stepErrors |-> 0, numHiccups |-> 0]
    /\ homing = [pc |-> "idle", hits |-> <<>>, dda |-> <<>>, log |-> <<>>]
    /\ extr = ExtrInit
    /\ live = LiveInit

\* The fields the stop, endstop and stepping operators work on
Machine ==
    [dms |-> dms, activeDMs |-> activeDMs, stepErrors |-> stepErrors,
     mpos |-> motorPositionsAfterScheduledMoves, steppingEnabled |-> steppingEnabled,
     dirPins |-> directionPins]

SetMachine(m) ==
    /\ dms' = m.dms
    /\ activeDMs' = m.activeDMs
    /\ stepErrors' = m.stepErrors
    /\ motorPositionsAfterScheduledMoves' = m.mpos
    /\ steppingEnabled' = m.steppingEnabled
    /\ directionPins' = m.dirPins

MovementNow == GetMovementTimerTicks(ticks, movementDelay)

\* StepTimer::ScheduleMovementCallbackFromIsr(when) reports that the callback
\* is already due instead of arming the timer
CallbackAlreadyDue(now, when) == SDiff(now, when) >= 0

\* A ScheduleNextStepInterrupt that never reports the step as already due
ScheduleNextStepInterrupt_NeverDue(D, head, now) == FALSE

\* Move::ScheduleNextStepInterrupt: true when the callback for the head's step
\* cannot be scheduled because that step is already due
ScheduleNextStepInterrupt(D, head, now) ==
    head # NULL /\ CallbackAlreadyDue(now, D[head].nextStepTime)

\* A wake-up that is lost
WakeMoveTaskFromISR_Lost(w) == w

\* Move::WakeMoveTaskFromISR, counted
WakeMoveTaskFromISR(w) == w + 1

\* ---------------------------------------------------------------------------
\* Time
\* ---------------------------------------------------------------------------
\* The timer interrupt is taken as soon as the armed time is reached, so the
\* clock moves on only while the ISR is running or no callback is due
CallbackPending == timer.armed /\ SDiff(MovementNow, timer.when) >= 0

Tick ==
    /\ elapsed < MaxTime
    /\ isr.pc # "idle" \/ ~CallbackPending
    /\ ticks' = TAdd(ticks, 1)
    /\ elapsed' = elapsed + 1
    /\ UNCHANGED <<dms, activeDMs, stepErrors, numHiccups, motorPositionsAfterScheduledMoves,
                   steppingEnabled, movementDelay, timer, isr, task,
                   movesAdded, motorSteps, stoppedDrives, wakeups, directionPins, lastCycle>>
    /\ UNCHANGED auxVars

\* ---------------------------------------------------------------------------
\* Move::Interrupt
\* ---------------------------------------------------------------------------
\* An entry test that makes Interrupt return at once
InterruptHasWork_Never(head) == FALSE

\* An entry test that lets Interrupt go on with an empty list
InterruptHasWork_Always(head) == TRUE

\* The test Interrupt makes on entry
InterruptHasWork(head) == head # NULL

\* Entry to Interrupt: the ISR position after the entry test
InterruptEntry(head, now) ==
    IF InterruptHasWork(head)
    THEN [pc |-> "step", now |-> now, isrStartTime |-> now, hiccupTime |-> 0,
          noWork |-> FALSE]
    ELSE [IsrIdle EXCEPT !.noWork = TRUE]

\* Endstops report hits only while a move that checks endstops is under way
EndstopsMonitored == \E d \in Drives : dms[d].state # "idle" /\ dms[d].checkEndstops

\* Move::TimerCallback: the armed callback has come due and calls Interrupt
TimerCallback ==
    /\ isr.pc = "idle"
    /\ timer.armed
    /\ SDiff(MovementNow, timer.when) >= 0
    /\ timer' = TimerOff
    /\ isr' = InterruptEntry(activeDMs, MovementNow)
    /\ UNCHANGED <<dms, activeDMs, stepErrors, numHiccups, motorPositionsAfterScheduledMoves,
                   steppingEnabled, ticks, movementDelay, task, elapsed,
                   movesAdded, motorSteps, stoppedDrives, wakeups, directionPins, lastCycle>>
    /\ UNCHANGED auxVars

\* Interrupt, the call of StepDrivers(p, now)
InterruptStepDrivers(hits) ==
    /\ isr.pc = "step"
    /\ hits = <<>> \/ EndstopsMonitored
    /\ LET r == StepDrivers(Machine, isr.now, MovementNow, hits)
       IN  /\ SetMachine(r.m)
           /\ lastCycle' = r.cycle
           /\ motorSteps' = [d \in Drivers |-> motorSteps[d] + r.cycle.pulseDir[d]]
           /\ stoppedDrives' = (stoppedDrives \cup r.cycle.removed)
                                  \ SeqToSet(ActiveList(r.m.dms, r.m.activeDMs))
    /\ isr' = [isr EXCEPT !.pc = "stepped"]
    /\ UNCHANGED <<numHiccups, ticks, movementDelay, timer, task, elapsed, movesAdded, wakeups>>
    /\ UNCHANGED auxVars

\* A hiccup whenever the next step is already due
NeedsHiccup_Always(now, isrStartTime) == TRUE

\* Interrupt, the test of clocksTaken: whether the ISR has run for too long
NeedsHiccup(now, isrStartTime) == SDiff(now, isrStartTime) >= MaxStepInterruptTime

\* Interrupt after StepDrivers: wake the Move task if the list is empty, else
\* arm the timer for the head; if that step is already due read the clock
\* again and either loop or start a hiccup
InterruptSchedule ==
    /\ isr.pc = "stepped"
    /\ IF activeDMs = NULL
       THEN /\ wakeups' = WakeMoveTaskFromISR(wakeups)
            /\ isr' = IsrIdle
            /\ UNCHANGED <<timer, numHiccups>>
       ELSE IF ~ScheduleNextStepInterrupt(dms, activeDMs, MovementNow)
       THEN /\ timer' = [armed |-> TRUE, when |-> dms[activeDMs].nextStepTime]
            /\ isr' = IsrIdle
            /\ UNCHANGED <<wakeups, numHiccups>>
       ELSE /\ timer' = TimerOff
            /\ IF NeedsHiccup(MovementNow, isr.isrStartTime)
               THEN /\ numHiccups' = numHiccups + 1
                    /\ isr' = [isr EXCEPT !.pc = "hiccup", !.now = MovementNow,
                                          !.hiccupTime = HiccupTime]
               ELSE /\ isr' = [isr EXCEPT !.pc = "step", !.now = MovementNow]
                    /\ UNCHANGED numHiccups
            /\ UNCHANGED wakeups
    /\ lastCycle' = NoCycle
    /\ UNCHANGED <<dms, activeDMs, stepErrors, motorPositionsAfterScheduledMoves,
                   steppingEnabled, ticks, movementDelay, task, elapsed,
                   movesAdded, motorSteps, stoppedDrives, directionPins>>
    /\ UNCHANGED auxVars

\* A hiccup loop that reads the clock again on each pass without calling
\* IncreaseMovementDelay, followed for three passes
InterruptHiccup_Undelayed ==
    /\ isr.pc = "hiccup"
    /\ isr.hiccupTime < HiccupTime + 3 * HiccupIncrement
    /\ IF ~ScheduleNextStepInterrupt(dms, activeDMs, MovementNow)
       THEN /\ timer' = [armed |-> TRUE, when |-> dms[activeDMs].nextStepTime]
            /\ isr' = IsrIdle
       ELSE /\ timer' = TimerOff
            /\ isr' = [isr EXCEPT !.now = MovementNow,
                                  !.hiccupTime = isr.hiccupTime + HiccupIncrement]
    /\ UNCHANGED <<dms, activeDMs, stepErrors, numHiccups, motorPositionsAfterScheduledMoves,
                   steppingEnabled, ticks, movementDelay, task, elapsed, movesAdded,
                   motorSteps, stoppedDrives, wakeups, directionPins, lastCycle>>
    /\ UNCHANGED auxVars

\* A hiccup loop that does not call IncreaseMovementDelay
InterruptHiccup_NoDelay ==
    /\ isr.pc = "hiccup"
    /\ IF ~ScheduleNextStepInterrupt(dms, activeDMs, MovementNow)
       THEN /\ timer' = [armed |-> TRUE, when |-> dms[activeDMs].nextStepTime]
            /\ isr' = IsrIdle
       ELSE /\ timer' = TimerOff
            /\ isr' = [isr EXCEPT !.hiccupTime = isr.hiccupTime + HiccupIncrement]
    /\ UNCHANGED <<dms, activeDMs, stepErrors, numHiccups, motorPositionsAfterScheduledMoves,
                   steppingEnabled, ticks, movementDelay, task, elapsed, movesAdded,
                   motorSteps, stoppedDrives, wakeups, directionPins, lastCycle>>
    /\ UNCHANGED auxVars

\* Interrupt, one pass of the hiccup loop: increase the movement delay by
\* hiccupTime and try to arm the timer again
InterruptHiccup ==
    /\ isr.pc = "hiccup"
    /\ movementDelay' = (movementDelay + isr.hiccupTime) % Modulus
    /\ LET now == GetMovementTimerTicks(ticks, movementDelay')
       IN  IF ~ScheduleNextStepInterrupt(dms, activeDMs, now)
           THEN /\ timer' = [armed |-> TRUE, when |-> dms[activeDMs].nextStepTime]
                /\ isr' = IsrIdle
           ELSE /\ timer' = TimerOff
                /\ isr' = [isr EXCEPT !.now = now,
                                      !.hiccupTime = isr.hiccupTime + HiccupIncrement]
    /\ UNCHANGED <<dms, activeDMs, stepErrors, numHiccups, motorPositionsAfterScheduledMoves,
                   steppingEnabled, ticks, task, elapsed, movesAdded,
                   motorSteps, stoppedDrives, wakeups, directionPins, lastCycle>>
    /\ UNCHANGED auxVars

\* ---------------------------------------------------------------------------
\* Move::AddLinearSegments (without input shaping)
\* ---------------------------------------------------------------------------
\* Move profiles: PrepParams and the DDA's distances, speeds and accelerations.
\* The clock counts are held with a fraction, here in half ticks; distances
\* are in units of distance.
Trapezoid ==
    [accelClocks |-> 2, steadyClocks |-> 2, decelClocks |-> 2,
     accelDistance |-> 1, decelStartDistance |-> 2, totalDistance |-> 3,
     startSpeed |-> 1, topSpeed |-> 2, acceleration |-> 1, deceleration |-> 1]
SteadyOnly ==
    [accelClocks |-> 0, steadyClocks |-> 4, decelClocks |-> 0,
     accelDistance |-> 0, decelStartDistance |-> 3, totalDistance |-> 3,
     startSpeed |-> 2, topSpeed |-> 2, acceleration |-> 1, deceleration |-> 1]
NoSteady ==
    [accelClocks |-> 2, steadyClocks |-> 0, decelClocks |-> 2,
     accelDistance |-> 0, decelStartDistance |-> 0, totalDistance |-> 1,
     startSpeed |-> 1, topSpeed |-> 2, acceleration |-> 1, deceleration |-> 1]
TinyMove ==
    [accelClocks |-> 2, steadyClocks |-> 0, decelClocks |-> 0,
     accelDistance |-> 0, decelStartDistance |-> 0, totalDistance |-> 0,
     startSpeed |-> 1, topSpeed |-> 2, acceleration |-> 1, deceleration |-> 1]

\* A planned move (DDA): its profile, its flags, and for each drive the steps
\* per unit distance (0: the drive does not take part) and which of the
\* drive's added segments has a failing step-time calculation (0: none)
PlannedMoves ==
    { [params |-> Trapezoid,  dir |-> TRUE,  check |-> FALSE,
       stepsPerMm |-> <<1, 2, 0>>, badAt |-> <<0, 0, 0>>,
       useInputShaping |-> FALSE, shaper |-> <<>>],
      [params |-> SteadyOnly, dir |-> FALSE, check |-> TRUE,
       stepsPerMm |-> <<1, 1, 0>>, badAt |-> <<0, 0, 0>>,
       useInputShaping |-> FALSE, shaper |-> <<>>],
      [params |-> Trapezoid,  dir |-> TRUE,  check |-> FALSE,
       stepsPerMm |-> <<1, 1, 1>>, badAt |-> <<2, 0, 0>>,
       useInputShaping |-> FALSE, shaper |-> <<>>],
      [params |-> SteadyOnly, dir |-> FALSE, check |-> FALSE,
       stepsPerMm |-> <<0, 1, 1>>, badAt |-> <<0, 1, 0>>,
       useInputShaping |-> FALSE, shaper |-> <<>>],
      [params |-> NoSteady,   dir |-> TRUE,  check |-> TRUE,
       stepsPerMm |-> <<0, 1, 1>>, badAt |-> <<0, 0, 0>>,
       useInputShaping |-> FALSE, shaper |-> <<>>],
      [params |-> TinyMove,   dir |-> TRUE,  check |-> FALSE,
       stepsPerMm |-> <<0, 0, 1>>, badAt |-> <<0, 0, 0>>,
       useInputShaping |-> FALSE, shaper |-> <<>>] }

\* The drives a move moves, and the next one after drive d (NULL: none)
MovesDrive(move, d) == move.stepsPerMm[d + 1] > 0
NextDriveOf(move, d) ==
    IF \E e \in Drives : e > d /\ MovesDrive(move, e)
    THEN CHOOSE e \in Drives : e > d /\ MovesDrive(move, e)
                               /\ \A f \in Drives : (f > d /\ MovesDrive(move, f)) => e <= f
    ELSE NULL

\* (uint32_t) of a clock count held in half ticks
ToTicks(c) == c \div 2

\* steadyStartTime and decelStartTime: the sum of a time in ticks and a clock
\* count, converted to uint32_t
SteadyStartTime(startTime, params) == ToTicks(2 * startTime + params.accelClocks) % Modulus
\* decelStartTime rounded to the nearest tick instead of truncated
DecelStartTime_Rounded(steadyStartTime, params) ==
    ToTicks(2 * steadyStartTime + params.steadyClocks + 1) % Modulus

DecelStartTime(steadyStartTime, params) ==
    ToTicks(2 * steadyStartTime + params.steadyClocks) % Modulus

SteadyDistance(params) == params.decelStartDistance - params.accelDistance
\* The distance of the deceleration phase taken from the end of acceleration
DecelDistance_FromAccel(params) == params.totalDistance - params.accelDistance

DecelDistance(params) == params.totalDistance - params.decelStartDistance

\* The arguments of one call of DriveMovement::AddSegment
SegmentCall(st, dur, dist, speed, accel) ==
    [startTime |-> st, duration |-> dur, distance |-> dist, u |-> speed, a |-> accel]

\* An unshaped branch that tests accelClocks where it should test steadyClocks
UnshapedCalls_SteadyByAccel(startTime, params, stepsPerMm) ==
    LET steadyStartTime == SteadyStartTime(startTime, params)
        decelStartTime == DecelStartTime(steadyStartTime, params)
        accel == IF params.accelClocks > 0
                 THEN <<SegmentCall(startTime, ToTicks(params.accelClocks),
                                    params.accelDistance * stepsPerMm,
                                    params.startSpeed * stepsPerMm,
                                    params.acceleration * stepsPerMm)>>
                 ELSE <<>>
        steady == IF params.accelClocks > 0
                  THEN <<SegmentCall(steadyStartTime, ToTicks(params.steadyClocks),
                                     SteadyDistance(params) * stepsPerMm,
                                     params.topSpeed * stepsPerMm, 0)>>
                  ELSE <<>>
        decel == IF params.decelClocks # 0
                 THEN <<SegmentCall(decelStartTime, ToTicks(params.decelClocks),
                                    DecelDistance(params) * stepsPerMm,
                                    params.topSpeed * stepsPerMm,
                                    0 - (params.deceleration * stepsPerMm))>>
                 ELSE <<>>
    IN  accel \o steady \o decel

\* AddLinearSegments without input shaping: the AddSegment calls, in order
UnshapedCalls(startTime, params, stepsPerMm) ==
    LET steadyStartTime == SteadyStartTime(startTime, params)
        decelStartTime == DecelStartTime(steadyStartTime, params)
        accel == IF params.accelClocks > 0
                 THEN <<SegmentCall(startTime, ToTicks(params.accelClocks),
                                    params.accelDistance * stepsPerMm,
                                    params.startSpeed * stepsPerMm,
                                    params.acceleration * stepsPerMm)>>
                 ELSE <<>>
        steady == IF params.steadyClocks > 0
                  THEN <<SegmentCall(steadyStartTime, ToTicks(params.steadyClocks),
                                     SteadyDistance(params) * stepsPerMm,
                                     params.topSpeed * stepsPerMm, 0)>>
                  ELSE <<>>
        decel == IF params.decelClocks # 0
                 THEN <<SegmentCall(decelStartTime, ToTicks(params.decelClocks),
                                    DecelDistance(params) * stepsPerMm,
                                    params.topSpeed * stepsPerMm,
                                    0 - (params.deceleration * stepsPerMm))>>
                 ELSE <<>>
    IN  accel \o steady \o decel

\* An impulse of the axis shaper is [num, den, delay]: its size num/den and
\* its delay in ticks. factor = GetImpulseSize(index) * stepsPerMm
\* A factor that leaves out the size of the impulse
ImpulseFactor_Unscaled(impulse, stepsPerMm) == stepsPerMm

ImpulseFactor(impulse, stepsPerMm) == (impulse.num * stepsPerMm) \div impulse.den

\* AddLinearSegments with input shaping: the AddSegment calls of the impulses
\* from index on, in order
RECURSIVE ShapedCallsFrom(_, _, _, _, _)
ShapedCallsFrom(index, startTime, params, stepsPerMm, shaper) ==
    IF index > Len(shaper) THEN <<>>
    ELSE LET steadyStartTime == SteadyStartTime(startTime, params)
             decelStartTime == DecelStartTime(steadyStartTime, params)
             factor == ImpulseFactor(shaper[index], stepsPerMm)
             delay == shaper[index].delay
             accel == IF params.accelClocks > 0
                      THEN <<SegmentCall(TAdd(startTime, delay), ToTicks(params.accelClocks),
                                         params.accelDistance * factor,
                                         params.startSpeed * factor,
                                         params.acceleration * factor)>>
                      ELSE <<>>
             steady == IF params.steadyClocks > 0
                       THEN <<SegmentCall(TAdd(steadyStartTime, delay),
                                          ToTicks(params.steadyClocks),
                                          SteadyDistance(params) * factor,
                                          params.topSpeed * factor, 0)>>
                       ELSE <<>>
             decel == IF params.decelClocks # 0
                      THEN <<SegmentCall(TAdd(decelStartTime, delay),
                                         ToTicks(params.decelClocks),
                                         DecelDistance(params) * factor,
                                         params.topSpeed * factor,
                                         0 - (params.deceleration * factor))>>
                      ELSE <<>>
         IN  accel \o steady \o decel
               \o ShapedCallsFrom(index + 1, startTime, params, stepsPerMm, shaper)

ShapedCalls(startTime, params, stepsPerMm, shaper) ==
    ShapedCallsFrom(1, startTime, params, stepsPerMm, shaper)

\* The AddSegment calls one call of AddLinearSegments makes
AddSegmentCalls(startTime, params, stepsPerMm, useInputShaping, shaper) ==
    IF useInputShaping
    THEN ShapedCalls(startTime, params, stepsPerMm, shaper)
    ELSE UnshapedCalls(startTime, params, stepsPerMm)

\* The segments the calls add to the chain. flags is [dir, check, badAt].
SegmentsOf(calls, flags) ==
    [i \in 1 .. Len(calls) |->
        [start |-> calls[i].startTime, duration |-> calls[i].duration,
         steps |-> calls[i].distance, dir |-> flags.dir, check |-> flags.check,
         bad |-> (i = flags.badAt)]]

RECURSIVE AddSegments(_, _)
AddSegments(dm, segs) ==
    IF segs = <<>> THEN dm
    ELSE AddSegments(AddSegment(dm, Head(segs)), Tail(segs))

\* End time of a chain's last segment
ChainEnd(segs) == TAdd(segs[Len(segs)].start, segs[Len(segs)].duration)

\* The later of two movement-clock times
TMax(a, b) == IF SDiff(a, b) >= 0 THEN a ELSE b

\* The start time of a move: when the segments already queued for its drives
\* end, or the present time if they have none
RECURSIVE LatestEnd(_, _, _, _)
LatestEnd(D, move, d, t) ==
    IF d > MaxAxesPlusExtruders + NumDirectDrivers - 1 THEN t
    ELSE LatestEnd(D, move, d + 1,
                   IF MovesDrive(move, d) /\ D[d].segments # <<>>
                   THEN TMax(t, ChainEnd(D[d].segments)) ELSE t)

MoveStartTime(D, move, now) == LatestEnd(D, move, 0, now)

\* The Move task inside AddLinearSegments for one drive of a move
TaskOf(move, drive, start, old, calls) ==
    [pc |-> "added", move |-> move, drive |-> drive, startTime |-> start, oldSegsNull |-> old,
     calls |-> calls]

\* A sample of the segment pointer that always reads null
OldSegsNull_Always(segs) == TRUE

\* AddLinearSegments: the drive had no segments when oldSegs was sampled
OldSegsNull(segs) == segs = <<>>

\* AddLinearSegments(dda, logicalDrive, startTime, ...) up to the test of
\* oldSegs, as it changes the drive's chain and the task's position
AddSegmentsFor(move, logicalDrive, startTime) ==
    LET dmp == dms[logicalDrive]
        oldSegs == dmp.segments
        flags == [dir |-> move.dir, check |-> move.check,
                  badAt |-> move.badAt[logicalDrive + 1]]
        calls == AddSegmentCalls(startTime, move.params, move.stepsPerMm[logicalDrive + 1],
                                 move.useInputShaping, move.shaper)
    IN  /\ dms' = [dms EXCEPT ![logicalDrive] = AddSegments(dmp, SegmentsOf(calls, flags))]
        /\ task' = TaskOf(move, logicalDrive, startTime, OldSegsNull(oldSegs), calls)

\* AddLinearSegments up to the test of oldSegs: sample the drive's segment
\* pointer, then add the segments. Runs in the Move task with the step
\* interrupt enabled. The task takes up a planned move and DDA::Prepare calls
\* AddLinearSegments for each of its drives in turn.
AddLinearSegmentsUpTo(move, limit) ==
    /\ isr.pc = "idle"
    /\ \/ /\ task.pc = "idle"
          /\ movesAdded < limit
          /\ movesAdded' = movesAdded + 1
       \/ /\ task.pc = "prepare"
          /\ move = task.move
          /\ UNCHANGED movesAdded
    /\ LET logicalDrive == IF task.pc = "idle" THEN NextDriveOf(move, -1) ELSE task.drive
           startTime == IF task.pc = "idle" THEN MoveStartTime(dms, move, MovementNow)
                        ELSE task.startTime
       IN  AddSegmentsFor(move, logicalDrive, startTime)
    /\ UNCHANGED <<activeDMs, stepErrors, numHiccups, motorPositionsAfterScheduledMoves,
                   steppingEnabled, ticks, movementDelay, timer, isr, elapsed,
                   motorSteps, stoppedDrives, wakeups, directionPins, lastCycle>>
    /\ UNCHANGED auxVars

AddLinearSegmentsAdd(move) == AddLinearSegmentsUpTo(move, MaxMoves)

\* The Move task after AddLinearSegments has returned for task.drive
TaskAfter(t) ==
    IF NextDriveOf(t.move, t.drive) = NULL
    THEN TaskIdle
    ELSE [t EXCEPT !.pc = "prepare", !.drive = NextDriveOf(t.move, t.drive),
                   !.oldSegsNull = FALSE, !.calls = <<>>]

\* Whether dmp has to be inserted: it is not already in the active list
NotInActiveList(D, head, dmp) == dmp \notin SeqToSet(ActiveList(D, head))

\* A test that never finds the inserted DM at the head
BecameHead_Never(head, dmp) == FALSE

\* AddLinearSegments, the test after InsertDM: dmp is now the first DM
BecameHead(head, dmp) == head = dmp

\* A failure branch that counts an error whatever the DM's state
ScheduleFailed_AlwaysCounted(D, errors, dmp) ==
    [dms |-> [D EXCEPT ![dmp].state = "idle"], stepErrors |-> errors + 1]

\* AddLinearSegments when ScheduleFirstSegment returned false: the record
\* [dms, stepErrors] afterwards
ScheduleFailed(D, errors, dmp) ==
    IF D[dmp].state # "idle"
    THEN [dms |-> [D EXCEPT ![dmp].state = "idle"], stepErrors |-> errors + 1]
    ELSE [dms |-> D, stepErrors |-> errors]

\* AddLinearSegments from the test of oldSegs on: in a critical section,
\* schedule the first segment, insert the DM and arm the timer if it is the
\* new head and simulationMode is off; Interrupt is called if that step is
\* already due
AddLinearSegmentsScheduleIn(simulating) ==
    /\ task.pc = "added"
    /\ isr.pc = "idle"
    /\ task' = TaskAfter(task)
    /\ IF task.oldSegsNull
       THEN LET dmp == task.drive
                D1 == [dms EXCEPT ![dmp] = ScheduleFirstSegment(dms[dmp])]
            IN  IF IsMotionState(D1[dmp].state)
                THEN IF NotInActiveList(D1, activeDMs, dmp)
                     THEN LET r == InsertDM(D1, activeDMs, dmp)
                          IN  /\ dms' = r.dms
                              /\ activeDMs' = r.activeDMs
                              /\ IF BecameHead(r.activeDMs, dmp) /\ ~simulating
                                 THEN IF ScheduleNextStepInterrupt(r.dms, r.activeDMs, MovementNow)
                                      THEN /\ timer' = TimerOff
                                           /\ isr' = InterruptEntry(r.activeDMs, MovementNow)
                                      ELSE /\ timer' = [armed |-> TRUE,
                                                        when |-> r.dms[dmp].nextStepTime]
                                           /\ UNCHANGED isr
                                 ELSE UNCHANGED <<timer, isr>>
                              /\ UNCHANGED stepErrors
                     ELSE /\ dms' = D1
                          /\ UNCHANGED <<activeDMs, timer, isr, stepErrors>>
                ELSE /\ dms' = ScheduleFailed(D1, stepErrors, dmp).dms
                     /\ stepErrors' = ScheduleFailed(D1, stepErrors, dmp).stepErrors
                     /\ UNCHANGED <<activeDMs, timer, isr>>
       ELSE UNCHANGED <<dms, activeDMs, timer, isr, stepErrors>>
    /\ stoppedDrives' = stoppedDrives \ SeqToSet(ActiveList(dms', activeDMs'))
    /\ UNCHANGED <<numHiccups, motorPositionsAfterScheduledMoves, steppingEnabled, ticks,
                   movementDelay, elapsed, movesAdded, motorSteps, wakeups,
                   directionPins, lastCycle>>
    /\ UNCHANGED auxVars

\* A scheduling step that never arms the timer for a new head
AddLinearSegmentsSchedule_Unarmed == AddLinearSegmentsScheduleIn(TRUE)

\* AddLinearSegments from the test of oldSegs on, with simulationMode off
AddLinearSegmentsSchedule == AddLinearSegmentsScheduleIn(FALSE)

\* ---------------------------------------------------------------------------
\* Endstops
\* ---------------------------------------------------------------------------
\* Move::OnEndstopOrZProbeStatesChanged: the endstop check made from task
\* context with the step interrupt shut out
OnEndstopOrZProbeStatesChanged(hits) ==
    /\ isr.pc = "idle"
    /\ hits # <<>>
    /\ EndstopsMonitored
    /\ LET m == CheckEndstops(Machine, hits)
       IN  /\ SetMachine(m)
           /\ stoppedDrives' = stoppedDrives
                                  \cup (SeqToSet(ActiveList(dms, activeDMs))
                                          \ SeqToSet(ActiveList(m.dms, m.activeDMs)))
    /\ UNCHANGED <<numHiccups, ticks, movementDelay, timer, isr, task, elapsed, movesAdded,
                   motorSteps, wakeups, lastCycle>>
    /\ UNCHANGED auxVars

\* ---------------------------------------------------------------------------
\* Specification
\* ---------------------------------------------------------------------------
Next ==
    \/ Tick
    \/ \E move \in PlannedMoves : AddLinearSegmentsAdd(move)
    \/ AddLinearSegmentsSchedule
    \/ TimerCallback
    \/ \E hits \in HitReports : InterruptStepDrivers(hits)
    \/ InterruptSchedule
    \/ InterruptHiccup
    \/ \E hits \in HitReports : OnEndstopOrZProbeStatesChanged(hits)

Spec == Init /\ [][Next]_vars

\* ---------------------------------------------------------------------------
\* The segment builder on its own
\* ---------------------------------------------------------------------------
\* The phases a profile can have: [clocks, distance]; a phase of no duration
\* covers no distance
SegPhases(distance) ==
    { [clocks |-> c, distance |-> d] : c \in 0 .. MaxClocks, d \in {0, distance} }
        \ { [clocks |-> 0, distance |-> distance] }

SegProfiles ==
    { [accelClocks |-> acc.clocks, steadyClocks |-> st.clocks, decelClocks |-> dec.clocks,
       accelDistance |-> acc.distance,
       decelStartDistance |-> acc.distance + st.distance,
       totalDistance |-> acc.distance + st.distance + dec.distance,
       startSpeed |-> 1, topSpeed |-> 2, acceleration |-> 1, deceleration |-> 1] :
      acc \in SegPhases(1), st \in SegPhases(2), dec \in SegPhases(1) }

\* Axis shapers: two impulses of a half, or a quarter, a half and a quarter
SegShapers ==
    { << [num |-> 1, den |-> 2, delay |-> 0], [num |-> 1, den |-> 2, delay |-> 2] >>,
      << [num |-> 1, den |-> 4, delay |-> 0], [num |-> 1, den |-> 2, delay |-> 1],
         [num |-> 1, den |-> 4, delay |-> 3] >> }

SegMoves ==
    { [params |-> p, dir |-> TRUE, check |-> FALSE, stepsPerMm |-> <<spm, 0, 0>>,
       badAt |-> <<0, 0, 0>>, useInputShaping |-> sh, shaper |-> shaper] :
      p \in SegProfiles, spm \in {4, 8}, sh \in BOOLEAN, shaper \in SegShapers }

SegStartTimes == {Modulus - 1, 3}

\* One call of AddLinearSegments for the first drive of a move, from the
\* initial state
AddLinearSegmentsCall(move, startTime) ==
    /\ task.pc = "idle"
    /\ movesAdded = 0
    /\ movesAdded' = 1
    /\ AddSegmentsFor(move, NextDriveOf(move, -1), startTime)
    /\ UNCHANGED <<activeDMs, stepErrors, numHiccups, motorPositionsAfterScheduledMoves,
                   steppingEnabled, ticks, movementDelay, timer, isr, elapsed,
                   motorSteps, stoppedDrives, wakeups, directionPins, lastCycle>>
    /\ UNCHANGED auxVars

SegNext == \E move \in SegMoves : \E startTime \in SegStartTimes :
               AddLinearSegmentsCall(move, startTime)

SegSpec == Init /\ [][SegNext]_vars

\* ---------------------------------------------------------------------------
\* Queued moves: the machine with moves planned one behind the other, so that
\* AddLinearSegments meets drives that still have segments; no endstop
\* is triggered
\* ---------------------------------------------------------------------------
MaxQueuedMoves == 2

\* The moves planned
QueuedMoves ==
    { [params |-> Trapezoid,  dir |-> TRUE,  check |-> FALSE,
       stepsPerMm |-> <<1, 2, 0>>, badAt |-> <<0, 0, 0>>,
       useInputShaping |-> FALSE, shaper |-> <<>>],
      [params |-> SteadyOnly, dir |-> FALSE, check |-> FALSE,
       stepsPerMm |-> <<1, 0, 1>>, badAt |-> <<0, 0, 0>>,
       useInputShaping |-> FALSE, shaper |-> <<>>] }

AddLinearSegmentsQueued(move) == AddLinearSegmentsUpTo(move, MaxQueuedMoves)

QueueNext ==
    \/ Tick
    \/ \E move \in QueuedMoves : AddLinearSegmentsQueued(move)
    \/ AddLinearSegmentsSchedule
    \/ TimerCallback
    \/ InterruptStepDrivers(<<>>)
    \/ InterruptSchedule
    \/ InterruptHiccup

QueueSpec == Init /\ [][QueueNext]_vars

\* ---------------------------------------------------------------------------
\* The task-context changes of the active list taken statement by statement,
\* with the step interrupt able to come in wherever it is not shut out
\* ---------------------------------------------------------------------------
\* A locker that leaves interrupts enabled
AtomicCriticalSectionLocker_Open == FALSE

\* AtomicCriticalSectionLocker lock: interrupts are disabled while it lives
AtomicCriticalSectionLocker == TRUE

\* ChangeBasePriority(NvicPriorityStep): the step interrupt is shut out
ChangeBasePriority == TRUE

\* AddLinearSegments, if (oldSegs == nullptr): the locker is constructed
SectionAddEnter ==
    /\ task.pc = "added"
    /\ task.oldSegsNull
    /\ isr.pc = "idle"
    /\ section.pc = "none"
    /\ section' = [held |-> AtomicCriticalSectionLocker, pc |-> "schedule", hits |-> <<>>]
    /\ UNCHANGED <<machineVars, besideSection>>

\* AddLinearSegments, the call of ScheduleFirstSegment and the branch taken
\* when it fails
SectionSchedule ==
    /\ section.pc = "schedule"
    /\ isr.pc = "idle"
    /\ LET dmp == task.drive
           D1 == [dms EXCEPT ![dmp] = ScheduleFirstSegment(dms[dmp])]
       IN  IF IsMotionState(D1[dmp].state)
           THEN /\ dms' = D1
                /\ section' = [section EXCEPT !.pc = "insert"]
                /\ UNCHANGED stepErrors
           ELSE /\ dms' = ScheduleFailed(D1, stepErrors, dmp).dms
                /\ stepErrors' = ScheduleFailed(D1, stepErrors, dmp).stepErrors
                /\ section' = [section EXCEPT !.pc = "leave"]
    /\ UNCHANGED <<activeDMs, numHiccups, motorPositionsAfterScheduledMoves, steppingEnabled,
                   ticks, movementDelay, timer, isr, task, elapsed, movesAdded, motorSteps,
                   stoppedDrives, wakeups, directionPins, lastCycle, besideSection>>

\* AddLinearSegments, the walk of the list, InsertDM and the arming of the
\* timer or the call of Interrupt
SectionInsert ==
    /\ section.pc = "insert"
    /\ isr.pc = "idle"
    /\ LET dmp == task.drive
       IN  IF NotInActiveList(dms, activeDMs, dmp)
           THEN LET r == InsertDM(dms, activeDMs, dmp)
                IN  /\ dms' = r.dms
                    /\ activeDMs' = r.activeDMs
                    /\ IF BecameHead(r.activeDMs, dmp)
                       THEN IF ScheduleNextStepInterrupt(r.dms, r.activeDMs, MovementNow)
                            THEN /\ timer' = TimerOff
                                 /\ isr' = InterruptEntry(r.activeDMs, MovementNow)
                            ELSE /\ timer' = [armed |-> TRUE, when |-> r.dms[dmp].nextStepTime]
                                 /\ UNCHANGED isr
                       ELSE UNCHANGED <<timer, isr>>
           ELSE UNCHANGED <<dms, activeDMs, timer, isr>>
    /\ section' = [section EXCEPT !.pc = "leave"]
    /\ stoppedDrives' = stoppedDrives \ SeqToSet(ActiveList(dms', activeDMs'))
    /\ UNCHANGED <<stepErrors, numHiccups, motorPositionsAfterScheduledMoves, steppingEnabled,
                   ticks, movementDelay, task, elapsed, movesAdded, motorSteps,
                   wakeups, directionPins, lastCycle, besideSection>>

\* AddLinearSegments returns: the locker is destroyed
SectionLeave ==
    /\ section.pc = "leave"
    /\ isr.pc = "idle"
    /\ section' = SectionNone
    /\ task' = TaskAfter(task)
    /\ UNCHANGED <<dms, activeDMs, stepErrors, numHiccups, motorPositionsAfterScheduledMoves,
                   steppingEnabled, ticks, movementDelay, timer, isr, elapsed, movesAdded,
                   motorSteps, stoppedDrives, wakeups, directionPins, lastCycle, besideSection>>

\* OnEndstopOrZProbeStatesChanged, ChangeBasePriority
SectionEndstopsEnter(hits) ==
    /\ isr.pc = "idle"
    /\ section.pc = "none"
    /\ hits # <<>>
    /\ EndstopsMonitored
    /\ section' = [held |-> ChangeBasePriority, pc |-> "endstops", hits |-> hits]
    /\ UNCHANGED <<machineVars, besideSection>>

\* OnEndstopOrZProbeStatesChanged: one turn of the loop of CheckEndstops, and
\* RestoreBasePriority when it returns
SectionEndstopsStep ==
    /\ section.pc = "endstops"
    /\ isr.pc = "idle"
    /\ IF section.hits = <<>>
       THEN /\ section' = SectionNone
            /\ UNCHANGED <<dms, activeDMs, stepErrors, motorPositionsAfterScheduledMoves,
                           steppingEnabled, directionPins, stoppedDrives>>
       ELSE LET m == CheckEndstops(Machine, <<Head(section.hits)>>)
            IN  /\ SetMachine(m)
                /\ stoppedDrives' = stoppedDrives
                                       \cup (SeqToSet(ActiveList(dms, activeDMs))
                                               \ SeqToSet(ActiveList(m.dms, m.activeDMs)))
                /\ section' = [section EXCEPT
                                 !.hits = IF Head(section.hits).action = "stopAll"
                                          THEN <<>> ELSE Tail(section.hits)]
    /\ UNCHANGED <<numHiccups, ticks, movementDelay, timer, isr, task, elapsed, movesAdded,
                   motorSteps, wakeups, lastCycle, besideSection>>

\* The step interrupt is taken: the timer's callback runs unless shut out
StepInterrupt ==
    /\ ~section.held
    /\ TimerCallback

\* The Move task goes on to the next call of AddLinearSegments
SectionAdd(move) ==
    /\ section.pc = "none"
    /\ AddLinearSegmentsAdd(move)

SectionNext ==
    \/ Tick
    \/ \E move \in PlannedMoves : SectionAdd(move)
    \/ SectionAddEnter
    \/ SectionSchedule
    \/ SectionInsert
    \/ SectionLeave
    \/ \E hits \in HitReports : SectionEndstopsEnter(hits)
    \/ SectionEndstopsStep
    \/ StepInterrupt
    \/ \E hits \in HitReports : InterruptStepDrivers(hits)
    \/ InterruptSchedule
    \/ InterruptHiccup

SectionSpec == Init /\ [][SectionNext]_vars

\* ---------------------------------------------------------------------------
\* Emergency stop: the machine with reprap.IsStopped() becoming true, MoveLoop
\* seeing it and Move::Exit being called
\* ---------------------------------------------------------------------------
\* RepRap::EmergencyStop sets the flag that reprap.IsStopped() reports
EmergencyStop ==
    /\ ~halt.stopped
    /\ halt' = [halt EXCEPT !.stopped = TRUE]
    /\ UNCHANGED <<machineVars, besideHalt>>

\* moveTask.TerminateAndUnlink()
TerminateAndUnlink(t) == [t EXCEPT !.pc = "terminated"]

\* Move::MoveLoop, the top of the loop: if (reprap.IsStopped())
MoveLoopStopped ==
    /\ isr.pc = "idle"
    /\ task.pc = "idle"
    /\ halt.stopped
    /\ task' = TerminateAndUnlink(task)
    /\ UNCHANGED <<dms, activeDMs, stepErrors, numHiccups, motorPositionsAfterScheduledMoves,
                   steppingEnabled, ticks, movementDelay, timer, isr, elapsed, movesAdded,
                   motorSteps, stoppedDrives, wakeups, directionPins, lastCycle>>
    /\ UNCHANGED auxVars

\* Move::Exit: DisableTimerInterrupt, CancelCallback, TerminateAndUnlink
Exit ==
    /\ isr.pc = "idle"
    /\ task.pc # "added"
    /\ halt.stopped
    /\ ~halt.exited
    /\ halt' = [halt EXCEPT !.exited = TRUE]
    /\ timer' = TimerOff
    /\ task' = TerminateAndUnlink(task)
    /\ UNCHANGED <<dms, activeDMs, stepErrors, numHiccups, motorPositionsAfterScheduledMoves,
                   steppingEnabled, ticks, movementDelay, isr, elapsed, movesAdded,
                   motorSteps, stoppedDrives, wakeups, directionPins, lastCycle>>
    /\ UNCHANGED besideHalt

\* MoveLoop goes on to prepare a move only past the test of IsStopped
MoveLoopAdd(move) ==
    /\ task.pc = "idle" => ~halt.stopped
    /\ AddLinearSegmentsAdd(move)

\* The timer's callback runs while the timer interrupt is enabled
TimerInterrupt ==
    /\ ~halt.exited
    /\ TimerCallback

StopNext ==
    \/ Tick
    \/ \E move \in PlannedMoves : MoveLoopAdd(move)
    \/ AddLinearSegmentsSchedule
    \/ TimerInterrupt
    \/ \E hits \in HitReports : InterruptStepDrivers(hits)
    \/ InterruptSchedule
    \/ InterruptHiccup
    \/ EmergencyStop
    \/ MoveLoopStopped
    \/ Exit

StopSpec == Init /\ [][StopNext]_vars

\* ---------------------------------------------------------------------------
\* MoveLoop's idle-current state machine
\* ---------------------------------------------------------------------------
\* A timeout that has always run out
IdleTimedOut_AtOnce(now, started, timeout) == TRUE

\* millis() - whenIdleTimerStarted >= idleTimeout, in unsigned arithmetic
IdleTimedOut(now, started, timeout) == (now - started) % MillisModulus >= timeout

\* millis() goes up by one
MilliTick ==
    /\ loop' = [loop EXCEPT !.millis = (loop.millis + 1) % MillisModulus,
                            !.sinceTiming = IF loop.sinceTiming < MaxIdleMillis
                                            THEN loop.sinceTiming + 1 ELSE MaxIdleMillis]
    /\ UNCHANGED <<machineVars, besideLoop>>

\* The moves in the rings complete
RingsBecomeIdle ==
    /\ ~loop.ringsIdle
    /\ loop' = [loop EXCEPT !.ringsIdle = TRUE]
    /\ UNCHANGED <<machineVars, besideLoop>>

\* GCodes' pause state changes
PauseStateChanges ==
    /\ loop' = [loop EXCEPT !.paused = ~loop.paused]
    /\ UNCHANGED <<machineVars, besideLoop>>

\* MoveLoop from the top of the loop to the idle test: a move is added to a
\* ring (moveState collecting) or none is
MoveLoopRead(moveAdded) ==
    /\ loop.pc = "read"
    /\ loop' = IF moveAdded
               THEN [loop EXCEPT !.pc = "check", !.moveState = "collecting",
                                 !.ringsIdle = FALSE, !.driversIdle = FALSE,
                                 !.busySinceTiming = TRUE]
               ELSE [loop EXCEPT !.pc = "check"]
    /\ UNCHANGED <<machineVars, besideLoop>>

\* MoveLoop, "Reduce motor current to standby if the rings have been idle for
\* long enough"
MoveLoopIdleCheck ==
    /\ loop.pc = "check"
    /\ loop' =
         IF loop.ringsIdle
         THEN IF loop.moveState = "executing" /\ ~loop.paused
              THEN [loop EXCEPT !.pc = "read", !.whenIdleTimerStarted = loop.millis,
                                !.moveState = "timing", !.sinceTiming = 0,
                                !.busySinceTiming = FALSE]
              ELSE IF loop.moveState = "timing"
                      /\ IdleTimedOut(loop.millis, loop.whenIdleTimerStarted, DefaultIdleTimeout)
                   THEN [loop EXCEPT !.pc = "read", !.driversIdle = TRUE, !.moveState = "idle"]
                   ELSE [loop EXCEPT !.pc = "read"]
         ELSE [loop EXCEPT !.pc = "read", !.moveState = "executing"]
    /\ UNCHANGED <<machineVars, besideLoop>>

IdleNext ==
    \/ MilliTick
    \/ RingsBecomeIdle
    \/ PauseStateChanges
    \/ \E moveAdded \in BOOLEAN : MoveLoopRead(moveAdded)
    \/ MoveLoopIdleCheck

IdleSpec == Init /\ [][IdleNext]_vars

\* ---------------------------------------------------------------------------
\* StepDrivers and SetDirection for a DM whose driver is slow, with the
\* busy-waits on the raw step clock
\* ---------------------------------------------------------------------------
\* StepTimer::GetTimerTicks() goes up by one
PinTick ==
    /\ pins' = [pins EXCEPT
                  !.raw = (pins.raw + 1) % PinModulus,
                  !.sinceFall = IF pins.sinceFall < MaxPinTicks THEN pins.sinceFall + 1
                                ELSE MaxPinTicks,
                  !.sinceDir = IF pins.sinceDir < MaxPinTicks THEN pins.sinceDir + 1
                               ELSE MaxPinTicks]
    /\ UNCHANGED <<machineVars, besidePins>>

\* a - b in unsigned arithmetic
RawDiff(a, b) == (a - b) % PinModulus

\* StepDrivers finds the DM's step due and its driver among the slow ones
SlowStepDue ==
    /\ pins.pc = "idle"
    /\ pins' = [pins EXCEPT !.pc = "waitLow"]
    /\ UNCHANGED <<machineVars, besidePins>>

\* A wait for the direction setup time that is over at once
DirSetupWait_None(rawNow, last) == FALSE

\* StepDrivers: rawNow - lastDirChangeTime < GetSlowDriverDirSetupClocks()
DirSetupWait(rawNow, last) == RawDiff(rawNow, last) < SlowDriverDirSetupClocks

\* StepDrivers: the wait for step low and direction setup time is over;
\* step drivers high
SlowStepHigh ==
    /\ pins.pc = "waitLow"
    /\ ~(RawDiff(pins.raw, pins.lastStepLowTime) < SlowDriverStepLowClocks
         \/ DirSetupWait(pins.raw, pins.lastDirChangeTime))
    /\ pins' = [pins EXCEPT !.pc = "high", !.step = TRUE, !.lastStepPulseTime = pins.raw]
    /\ UNCHANGED <<machineVars, besidePins>>

\* StepDrivers: CalcNextStepTime, which may find the next segment reversed,
\* the wait for the step high time, step drivers low
SlowStepLow(reversed) ==
    /\ pins.pc = "high"
    /\ ~(RawDiff(pins.raw, pins.lastStepPulseTime) < SlowDriverStepHighClocks)
    /\ pins' = [pins EXCEPT !.pc = "reinsert", !.step = FALSE, !.lastStepLowTime = pins.raw,
                            !.directionChanged = reversed, !.sinceFall = 0]
    /\ UNCHANGED <<machineVars, besidePins>>

\* StepDrivers re-inserts a DM whose direction has not changed
ReinsertSameDirection ==
    /\ pins.pc = "reinsert"
    /\ ~pins.directionChanged
    /\ pins' = [pins EXCEPT !.pc = "idle"]
    /\ UNCHANGED <<machineVars, besidePins>>

\* A wait for the direction hold time that is over at once
DirHoldWait_None(rawNow, last) == FALSE

\* SetDirection: GetTimerTicks() - lastStepLowTime
\*                 < GetSlowDriverDirHoldClocksFromTrailingEdge()
DirHoldWait(rawNow, last) == RawDiff(rawNow, last) < SlowDriverDirHoldClocksFromTrailingEdge

\* StepDrivers clears directionChanged and calls SetDirection, which waits,
\* sets the direction output and records the time
SetDirection ==
    /\ pins.pc = "reinsert"
    /\ pins.directionChanged
    /\ ~DirHoldWait(pins.raw, pins.lastStepLowTime)
    /\ pins' = [pins EXCEPT !.pc = "idle", !.directionChanged = FALSE, !.dir = ~pins.dir,
                            !.lastDirChangeTime = pins.raw, !.sinceDir = 0]
    /\ UNCHANGED <<machineVars, besidePins>>

DirNext ==
    \/ PinTick
    \/ SlowStepDue
    \/ SlowStepHigh
    \/ \E reversed \in BOOLEAN : SlowStepLow(reversed)
    \/ ReinsertSameDirection
    \/ SetDirection

DirSpec == Init /\ [][DirNext]_vars

\* ---------------------------------------------------------------------------
\* Move::Diagnostics called from the Main task while the machine runs
\* ---------------------------------------------------------------------------
\* The moves planned: those whose errors, if any, are met by the ISR
DiagMoves == { move \in PlannedMoves : \A i \in 1..Len(move.badAt) : move.badAt[i] # 1 }

\* Move::Diagnostics, the call of MessageF: numHiccups and stepErrors are read
\* and reported
DiagnosticsReport ==
    /\ isr.pc = "idle"
    /\ diag.pc = "idle"
    /\ diag' = [pc |-> "reported", stepErrors |-> stepErrors, numHiccups |-> numHiccups]
    /\ UNCHANGED <<machineVars, besideDiag>>

\* Move::Diagnostics, stepErrors = numHiccups = 0
DiagnosticsReset ==
    /\ isr.pc = "idle"
    /\ diag.pc = "reported"
    /\ stepErrors' = 0
    /\ numHiccups' = 0
    /\ diag' = [diag EXCEPT !.pc = "idle"]
    /\ UNCHANGED <<dms, activeDMs, motorPositionsAfterScheduledMoves, steppingEnabled, ticks,
                   movementDelay, timer, isr, task, elapsed, movesAdded, motorSteps,
                   stoppedDrives, wakeups, directionPins, lastCycle>>
    /\ UNCHANGED besideDiag

DiagNext ==
    \/ Tick
    \/ \E move \in DiagMoves : AddLinearSegmentsAdd(move)
    \/ AddLinearSegmentsSchedule
    \/ TimerCallback
    \/ InterruptStepDrivers(<<>>)
    \/ InterruptSchedule
    \/ InterruptHiccup
    \/ DiagnosticsReport
    \/ DiagnosticsReset

DiagSpec == Init /\ [][DiagNext]_vars

\* ---------------------------------------------------------------------------
\* CheckEndstops as the sequence of calls it makes, and the pulse StepDrivers
\* makes after it
\* ---------------------------------------------------------------------------
MaxHits == 2

\* What Endstops::CheckEndstops can return for a triggered endstop or probe
\* (isZProbe is read for a stopAll hit only)
HomingHitDetails ==
    { h \in [action : {"stopAll", "stopAxis", "stopDriver"}, axis : LogicalDrives,
             isZProbe : BOOLEAN, setAxisLow : BOOLEAN, setAxisHigh : BOOLEAN] :
        h.isZProbe => h.action = "stopAll" }

\* The hits reported by successive calls, before none is reported
HomingHitReports ==
    UNION { [1..n -> HomingHitDetails] : n \in 0..MaxHits }

\* dms[axis].homingDda: none, a DDA not yet committed that checks endstops,
\* or a committed one that checks them or not
HomingDdaStates == {"none", "provisionalChecking", "committed", "committedChecking"}

\* OnHomingSwitchTriggered and SetAxisIsHomed whatever the homing DDA
HomingCallback_Unconditional(k, hitDetails, homingDda) ==
    <<[ev |-> "OnHomingSwitchTriggered", hit |-> k, axis |-> hitDetails.axis,
       high |-> ~hitDetails.setAxisLow],
      [ev |-> "SetAxisIsHomed", hit |-> k, axis |-> hitDetails.axis, high |-> FALSE]>>

\* CheckEndstops, "Get the DDA associated with the axis that has triggered":
\* the calls made for hit number k
HomingCallback(k, hitDetails, homingDda) ==
    IF homingDda = "committedChecking"
    THEN IF hitDetails.setAxisLow
         THEN <<[ev |-> "OnHomingSwitchTriggered", hit |-> k, axis |-> hitDetails.axis,
                 high |-> FALSE],
                [ev |-> "SetAxisIsHomed", hit |-> k, axis |-> hitDetails.axis, high |-> FALSE]>>
         ELSE IF hitDetails.setAxisHigh
         THEN <<[ev |-> "OnHomingSwitchTriggered", hit |-> k, axis |-> hitDetails.axis,
                 high |-> TRUE],
                [ev |-> "SetAxisIsHomed", hit |-> k, axis |-> hitDetails.axis, high |-> FALSE]>>
         ELSE <<>>
    ELSE <<>>

\* Move::CheckEndstops from hit number k on: the calls it makes
RECURSIVE CheckEndstopsCalls(_, _, _)
CheckEndstopsCalls(hits, dda, k) ==
    IF k > Len(hits) THEN <<>>
    ELSE LET hitDetails == hits[k]
             stop(e) == <<[ev |-> e, hit |-> k, axis |-> hitDetails.axis, high |-> FALSE]>>
         IN  CASE hitDetails.action = "stopAll" ->
                    stop("StopAllDrivers")
                    \o (IF hitDetails.isZProbe THEN stop("MoveStoppedByZProbe")
                        ELSE HomingCallback(k, hitDetails, dda[hitDetails.axis + 1]))
               [] hitDetails.action = "stopAxis" ->
                    stop("StopAxisOrExtruder")
                    \o HomingCallback(k, hitDetails, dda[hitDetails.axis + 1])
                    \o CheckEndstopsCalls(hits, dda, k + 1)
               [] OTHER ->
                    stop("DisableSteppingDriver")
                    \o HomingCallback(k, hitDetails, dda[hitDetails.axis + 1])
                    \o CheckEndstopsCalls(hits, dda, k + 1)

\* StepDrivers with flags.checkEndstops set: CheckEndstops, then the step pulse
StepDriversChecked(hits, dda) ==
    /\ homing.pc = "idle"
    /\ homing' = [pc |-> "stepped", hits |-> hits, dda |-> dda,
                  log |-> CheckEndstopsCalls(hits, dda, 1)
                            \o <<[ev |-> "StepDriversHigh", hit |-> 0, axis |-> 0,
                                  high |-> FALSE]>>]
    /\ UNCHANGED <<machineVars, besideHoming>>

\* StepDrivers returns
StepDriversReturn ==
    /\ homing.pc = "stepped"
    /\ homing' = [pc |-> "idle", hits |-> <<>>, dda |-> <<>>, log |-> <<>>]
    /\ UNCHANGED <<machineVars, besideHoming>>

HomingNext ==
    \/ \E hits \in HomingHitReports : \E dda \in [1..MaxAxesPlusExtruders -> HomingDdaStates] :
          StepDriversChecked(hits, dda)
    \/ StepDriversReturn

HomingSpec == Init /\ [][HomingNext]_vars

\* ---------------------------------------------------------------------------
\* The step machine with a clock that runs on
\* ---------------------------------------------------------------------------
MaxStepClocks == 1
MaxRetryDelay == 2

\* Whether any movement is outstanding
MovementOutstanding == activeDMs # NULL \/ isr.pc # "idle" \/ timer.armed

\* The step clock advances: while movement is outstanding, not past the time
\* of an armed callback without the interrupt being taken, and while Interrupt
\* runs by at most MaxStepClocks between two readings of the clock around
\* StepDrivers and by at most MaxRetryDelay between two passes of the hiccup
\* loop
ClockTick ==
    /\ MovementOutstanding
    /\ isr.pc # "idle" \/ ~CallbackPending
    /\ isr.pc \in {"step", "stepped"} => SDiff(MovementNow, isr.now) < MaxStepClocks
    /\ isr.pc = "hiccup" => SDiff(MovementNow, isr.now) < MaxRetryDelay
    /\ ticks' = TAdd(ticks, 1)
    /\ UNCHANGED <<dms, activeDMs, stepErrors, numHiccups, motorPositionsAfterScheduledMoves,
                   steppingEnabled, movementDelay, timer, isr, task, elapsed,
                   movesAdded, motorSteps, stoppedDrives, wakeups, directionPins, lastCycle>>
    /\ UNCHANGED auxVars

DrainNext ==
    \/ ClockTick
    \/ \E move \in PlannedMoves : AddLinearSegmentsAdd(move)
    \/ AddLinearSegmentsSchedule
    \/ TimerCallback
    \/ \E hits \in HitReports : InterruptStepDrivers(hits)
    \/ InterruptSchedule
    \/ InterruptHiccup
    \/ \E hits \in HitReports : OnEndstopOrZProbeStatesChanged(hits)

\* Interrupt goes on from its entry to the return of StepDrivers: the step
\* that InterruptStepDrivers makes of the position of Interrupt, whatever the
\* endstops report
StepDriversRuns == isr.pc = "step" /\ isr' = [isr EXCEPT !.pc = "stepped"]

\* The clock runs, a due timer interrupt is taken, and Interrupt once entered
\* runs on
DrainFairness ==
    /\ WF_vars(ClockTick)
    /\ WF_vars(TimerCallback)
    /\ WF_isr(StepDriversRuns)
    /\ WF_vars(InterruptSchedule)
    /\ WF_vars(InterruptHiccup)

DrainSpec == Init /\ [][DrainNext]_vars /\ DrainFairness

\* ---------------------------------------------------------------------------
\* Move::GetAccumulatedExtrusion, called from FilamentMonitor::Spin statement by
\* statement and from the filament monitor's interrupt, while the drive is
\* stepped
\* ---------------------------------------------------------------------------
\* The drive whose steps are read
ExtruderDrive == 0

\* DriveMovement::GetNetStepsTaken: the DM's accumulated net step count
GetNetStepsTaken(dm) == dm.motorPos

\* GetAccumulatedExtrusion without its critical section
ExtrusionLocker_Open == FALSE

\* GetAccumulatedExtrusion, AtomicCriticalSectionLocker lock: interrupts are
\* disabled
ExtrusionLocker == TRUE

\* What a call leaves behind when it returns value: the sum of the values
\* returned so far, the last of them, and the net steps as the call returns
Returned(e, value, net) ==
    [e EXCEPT !.total = e.total + value, !.lastReturn = value, !.netAtReturn = net]

\* GetAccumulatedExtrusion called from Spin: the lock is taken
ExtrusionEnter ==
    /\ isr.pc = "idle"
    /\ extr.pc = "idle"
    /\ extr' = [extr EXCEPT !.pc = "locked", !.held = ExtrusionLocker]
    /\ UNCHANGED <<machineVars, besideExtr>>

\* ret = movementAccumulators[logicalDrive]
ExtrusionReadAccumulator ==
    /\ isr.pc = "idle"
    /\ extr.pc = "locked"
    /\ extr' = [extr EXCEPT !.pc = "read", !.ret = extr.acc]
    /\ UNCHANGED <<machineVars, besideExtr>>

\* adjustment = dms[logicalDrive].GetNetStepsTaken()
ExtrusionReadNetSteps ==
    /\ isr.pc = "idle"
    /\ extr.pc = "read"
    /\ extr' = [extr EXCEPT !.pc = "adjusted",
                            !.adjustment = GetNetStepsTaken(dms[ExtruderDrive])]
    /\ UNCHANGED <<machineVars, besideExtr>>

\* movementAccumulators[logicalDrive] = -adjustment; return ret + adjustment
ExtrusionReturn ==
    /\ isr.pc = "idle"
    /\ extr.pc = "adjusted"
    /\ extr' = Returned([extr EXCEPT !.pc = "idle", !.held = FALSE,
                                     !.acc = 0 - extr.adjustment],
                        extr.ret + extr.adjustment,
                        GetNetStepsTaken(dms[ExtruderDrive]))
    /\ UNCHANGED <<machineVars, besideExtr>>

\* GetAccumulatedExtrusion called from the filament monitor's interrupt, which
\* is taken while interrupts are enabled and runs the whole function
ExtrusionFromISR ==
    /\ isr.pc = "idle"
    /\ ~extr.held
    /\ LET adjustment == GetNetStepsTaken(dms[ExtruderDrive])
       IN  extr' = Returned([extr EXCEPT !.acc = 0 - adjustment],
                            extr.acc + adjustment, adjustment)
    /\ UNCHANGED <<machineVars, besideExtr>>

\* The step timer interrupt is taken while interrupts are enabled
ExtrusionStepInterrupt == ~extr.held /\ TimerCallback

\* The Move task runs while interrupts are enabled: with them disabled no
\* other task is switched to
ExtrusionAdd(move) == ~extr.held /\ AddLinearSegmentsQueued(move)
ExtrusionSchedule == ~extr.held /\ AddLinearSegmentsSchedule

ExtrusionNext ==
    \/ Tick
    \/ \E move \in QueuedMoves : ExtrusionAdd(move)
    \/ ExtrusionSchedule
    \/ ExtrusionStepInterrupt
    \/ InterruptStepDrivers(<<>>)
    \/ InterruptSchedule
    \/ InterruptHiccup
    \/ ExtrusionEnter
    \/ ExtrusionReadAccumulator
    \/ ExtrusionReadNetSteps
    \/ ExtrusionReturn
    \/ ExtrusionFromISR

ExtrusionSpec == Init /\ [][ExtrusionNext]_vars

\* ---------------------------------------------------------------------------
\* Simulation mode debug: moves are added without arming the timer and MoveLoop
\* calls SimulateSteppingDrivers until the active list is empty
\* ---------------------------------------------------------------------------
\* AddLinearSegments from the test of oldSegs on, with simulationMode not off
SimulationSchedule == AddLinearSegmentsScheduleIn(TRUE)

\* MoveLoop, one call of SimulateSteppingDrivers
SimulateSteppingDriversCall ==
    /\ task.pc = "idle"
    /\ isr.pc = "idle"
    /\ activeDMs # NULL
    /\ SetMachine(SimulateSteppingDrivers(Machine))
    /\ UNCHANGED <<numHiccups, ticks, movementDelay, timer, isr, task, elapsed, movesAdded,
                   motorSteps, stoppedDrives, wakeups, lastCycle>>
    /\ UNCHANGED auxVars

SimulationNext ==
    \/ Tick
    \/ \E move \in PlannedMoves : AddLinearSegmentsAdd(move)
    \/ SimulationSchedule
    \/ SimulateSteppingDriversCall

SimulationSpec == Init /\ [][SimulationNext]_vars

\* ---------------------------------------------------------------------------
\* LiveMachineCoordinate, called from the tasks that serve status requests
\* while the Move task and the step ISR run
\* ---------------------------------------------------------------------------
\* millis() goes up by one; the time a call takes is not followed
LiveMilliTick ==
    /\ live.pc = "idle"
    /\ live.sinceFetch < MaxLiveMillis
    /\ live' = [live EXCEPT !.sinceFetch = @ + 1]
    /\ UNCHANGED <<machineVars, besideLive>>

\* DriveMovement::MotionPending: the DM has segments to execute
MotionPending(dm) == dm.segments # <<>>

\* LiveMachineCoordinate, the test that decides whether to fetch
LiveFetchNeeded(forceUpdate, sinceFetch, valid) ==
    forceUpdate \/ (sinceFetch > LiveCoordinatesMaxAge /\ ~valid)

\* LiveMachineCoordinate up to the call of UpdateLiveMachineCoordinates, or to
\* its return when the cached coordinates are served
LiveMachineCoordinateCall ==
    /\ live.pc = "idle"
    /\ LET l == [live EXCEPT !.ageAtCall = live.sinceFetch,
                             !.addedSinceFetch = movesAdded > live.movesAtFetch]
       IN  IF LiveFetchNeeded(live.forceLiveCoordinatesUpdate, live.sinceFetch,
                              live.liveCoordinatesValid)
           THEN live' = [l EXCEPT !.pc = "update"]
           ELSE live' = [l EXCEPT !.pc = "returned", !.served = "cached"]
    /\ UNCHANGED <<machineVars, besideLive>>

\* UpdateLiveMachineCoordinates: motionAdded = false and the loop that reads
\* the motor positions
LiveUpdateRead ==
    /\ live.pc = "update"
    /\ isr.pc = "idle"
    /\ live' = [live EXCEPT !.pc = "converted",
                            !.motionAdded = FALSE,
                            !.motionPending = \E d \in LogicalDrives : MotionPending(dms[d]),
                            !.movesAtRead = movesAdded]
    /\ UNCHANGED <<machineVars, besideLive>>

\* UpdateLiveMachineCoordinates, the critical section at its end, and the two
\* assignments LiveMachineCoordinate makes after it
LiveUpdateFinish ==
    /\ live.pc = "converted"
    /\ isr.pc = "idle"
    /\ LET ok == ~live.motionPending /\ ~live.motionAdded
       IN  live' = [live EXCEPT !.pc = "returned",
                                !.liveCoordinatesValid = IF ok THEN TRUE ELSE @,
                                !.forceLiveCoordinatesUpdate = FALSE,
                                !.sinceFetch = 0,
                                !.markedValid = ok,
                                !.addedDuringFetch = movesAdded # live.movesAtRead,
                                !.movesAtFetch = movesAdded,
                                !.served = "fresh"]
    /\ UNCHANGED <<machineVars, besideLive>>

\* return latestLiveCoordinates[axisOrExtruder]; what the call did is forgotten
LiveReturn ==
    /\ live.pc = "returned"
    /\ live' = [live EXCEPT !.pc = "idle", !.motionPending = FALSE, !.movesAtRead = 0,
                            !.addedDuringFetch = FALSE, !.markedValid = FALSE,
                            !.addedSinceFetch = FALSE, !.ageAtCall = 0, !.served = "none"]
    /\ UNCHANGED <<machineVars, besideLive>>

\* Move::ForceLiveCoordinatesUpdate
ForceLiveCoordinatesUpdate ==
    /\ live.pc = "idle"
    /\ ~live.forceLiveCoordinatesUpdate
    /\ live' = [live EXCEPT !.forceLiveCoordinatesUpdate = TRUE]
    /\ UNCHANGED <<machineVars, besideLive>>

\* Move::AdjustMotorPositions, called with no movement pending
AdjustMotorPositions(adjustment) ==
    /\ movesAdded = 0
    /\ task.pc = "idle"
    /\ isr.pc = "idle"
    /\ live.pc = "idle"
    /\ \A d \in LogicalDrives : dms[d].motorPos + adjustment[d] \in -MaxAdjustment..MaxAdjustment
    /\ dms' = [d \in Drives |-> IF d \in LogicalDrives
                                THEN [dms[d] EXCEPT !.motorPos = @ + adjustment[d]]
                                ELSE dms[d]]
    /\ motorPositionsAfterScheduledMoves' =
           [d \in LogicalDrives |-> dms[d].motorPos + adjustment[d]]
    /\ live' = [live EXCEPT !.liveCoordinatesValid = FALSE]
    /\ UNCHANGED <<activeDMs, stepErrors, numHiccups, steppingEnabled, ticks, movementDelay,
                   timer, isr, task, elapsed, movesAdded, motorSteps, stoppedDrives, wakeups,
                   directionPins, lastCycle>>
    /\ UNCHANGED besideLive

\* The move whose segments are added while coordinates are being served
LiveMoves == { move \in QueuedMoves : move.params = SteadyOnly }

LiveNext ==
    \/ Tick
    \/ \E move \in LiveMoves : AddLinearSegmentsUpTo(move, MaxMoves)
    \/ AddLinearSegmentsSchedule
    \/ TimerCallback
    \/ InterruptStepDrivers(<<>>)
    \/ InterruptSchedule
    \/ InterruptHiccup
    \/ LiveMilliTick
    \/ LiveMachineCoordinateCall
    \/ LiveUpdateRead
    \/ LiveUpdateFinish
    \/ LiveReturn
    \/ ForceLiveCoordinatesUpdate
    \/ \E adjustment \in {[d \in LogicalDrives |-> 1]} : AdjustMotorPositions(adjustment)

LiveSpec == Init /\ [][LiveNext]_vars

\* ---------------------------------------------------------------------------
\* AddLinearSegments with the sample of the drive's segment pointer and the
\* calls of AddSegment taken as separate steps: the step interrupt is enabled
\* between them
\* ---------------------------------------------------------------------------
\* AddLinearSegments, const MoveSegment *const oldSegs = dmp->segments
RaceSample(move) ==
    /\ isr.pc = "idle"
    /\ \/ /\ task.pc = "idle"
          /\ movesAdded < MaxQueuedMoves
          /\ movesAdded' = movesAdded + 1
       \/ /\ task.pc = "prepare"
          /\ move = task.move
          /\ UNCHANGED movesAdded
    /\ LET logicalDrive == IF task.pc = "idle" THEN NextDriveOf(move, -1) ELSE task.drive
           startTime == IF task.pc = "idle" THEN MoveStartTime(dms, move, MovementNow)
                        ELSE task.startTime
           calls == AddSegmentCalls(startTime, move.params, move.stepsPerMm[logicalDrive + 1],
                                    move.useInputShaping, move.shaper)
       IN  task' = [TaskOf(move, logicalDrive, startTime,
                           OldSegsNull(dms[logicalDrive].segments), calls)
                       EXCEPT !.pc = "sampled"]
    /\ UNCHANGED <<dms, activeDMs, stepErrors, numHiccups, motorPositionsAfterScheduledMoves,
                   steppingEnabled, ticks, movementDelay, timer, isr, elapsed,
                   motorSteps, stoppedDrives, wakeups, directionPins, lastCycle>>
    /\ UNCHANGED auxVars

\* AddLinearSegments, the calls of AddSegment
RaceAddSegments ==
    /\ isr.pc = "idle"
    /\ task.pc = "sampled"
    /\ LET flags == [dir |-> task.move.dir, check |-> task.move.check,
                     badAt |-> task.move.badAt[task.drive + 1]]
       IN  dms' = [dms EXCEPT ![task.drive] = AddSegments(@, SegmentsOf(task.calls, flags))]
    /\ task' = [task EXCEPT !.pc = "added"]
    /\ UNCHANGED <<activeDMs, stepErrors, numHiccups, motorPositionsAfterScheduledMoves,
                   steppingEnabled, ticks, movementDelay, timer, isr, elapsed, movesAdded,
                   motorSteps, stoppedDrives, wakeups, directionPins, lastCycle>>
    /\ UNCHANGED auxVars

RaceNext ==
    \/ Tick
    \/ \E move \in QueuedMoves : RaceSample(move)
    \/ RaceAddSegments
    \/ AddLinearSegmentsSchedule
    \/ TimerCallback
    \/ InterruptStepDrivers(<<>>)
    \/ InterruptSchedule
    \/ InterruptHiccup

RaceSpec == Init /\ [][RaceNext]_vars

\* ---------------------------------------------------------------------------
\* Every operation that changes the active list, in any order: simulation mode
\* may be switched at any time
\* ---------------------------------------------------------------------------
ListNext ==
    \/ Next
    \/ SimulateSteppingDriversCall

ListSpec == Init /\ [][ListNext]_vars

\* ---------------------------------------------------------------------------
\* The segment pool on its own: Allocate and ReleaseAll in both contexts
\* ---------------------------------------------------------------------------
PoolNext ==
    \E c \in Contexts :
        \/ AllocateEnter(c)
        \/ AllocateTake(c)
        \/ AllocateReturn(c)
        \/ ReleaseAllEnter(c)
        \/ ReleaseAllStep(c)

PoolSpec == Init /\ [][PoolNext]_vars

\* ---------------------------------------------------------------------------
ActiveSet == SeqToSet(ActiveList(dms, activeDMs))

\* C1: in every state the active list, walked from the head through nextDM,
\* is non-decreasing in nextStepTime (by the signed difference of the times).
ActiveListSorted ==
    LET l == ActiveList(dms, activeDMs)
    IN  \A i \in 1 .. Len(l) : \A j \in 1 .. Len(l) :
            i < j => SDiff(dms[l[j]].nextStepTime, dms[l[i]].nextStepTime) >= 0

\* C1 witness: a StepDrivers cycle has re-inserted a DM into a list of several
\* DMs with different step times
ActiveListSorted_Witness ==
    LET l == ActiveList(dms, activeDMs)
    IN  /\ isr.pc = "stepped"
        /\ lastCycle.stepped \cap ActiveSet # {}
        /\ Len(l) >= 2
        /\ dms[l[1]].nextStepTime # dms[l[Len(l)]].nextStepTime

\* C2: a DM is in the active list exactly when its state is a motion state;
\* no idle DM is in the list, and whenever AddLinearSegments and StepDrivers
\* are not part-way through, no DM in a motion state is outside it.
MemberIffMotionState ==
    \A d \in Drives : (d \in ActiveSet) <=> IsMotionState(dms[d].state)

\* C2 witness: StepDrivers has returned with one stepped DM finished and out
\* of the list while another DM is still in it
MemberIffMotionState_Witness ==
    /\ isr.pc = "stepped"
    /\ lastCycle.finished # {}
    /\ ActiveSet # {}

\* C3: when neither AddLinearSegments nor the ISR is part-way through, a
\* DM's state is idle exactly when its segment chain is empty.
IdleIffNoSegments ==
    (task.pc # "added" /\ isr.pc \in {"idle", "stepped"})
        => \A d \in Drives : (dms[d].state = "idle") <=> (dms[d].segments = <<>>)

\* C4: a call of Interrupt while the active list is empty returns at once:
\* the list stays empty, the counters, the pins, the movement delay and the
\* number of wake-ups are unchanged and the timer is not armed.
InterruptOnEmptyListIsNoOp ==
    [][(TimerCallback /\ activeDMs = NULL)
         => /\ isr'.pc = "idle"
            /\ activeDMs' = NULL
            /\ ~timer'.armed
            /\ UNCHANGED <<dms, stepErrors, numHiccups, motorSteps, directionPins,
                           movementDelay, wakeups>>]_vars

\* C4 witness: the last call of Interrupt found the list empty and has returned
InterruptOnEmptyListIsNoOp_Witness ==
    isr.pc = "idle" /\ isr.noWork /\ activeDMs = NULL

\* C5: in a StepDrivers cycle every DM of the list whose step is due, and so
\* every DM with the step time of the head, is stepped, and the enabled
\* drivers of all of them are pulsed together.
DueStepsShareOneCycle ==
    /\ lastCycle.dueAll \subseteq lastCycle.stepped
    /\ lastCycle.stepped # {} => lastCycle.headTime \subseteq lastCycle.stepped
    /\ DriversOfAll(lastCycle.dueAll) \cap lastCycle.enabled \subseteq lastCycle.pulsed

\* C5 witness: a cycle has stepped two DMs that had the same step time
DueStepsShareOneCycle_Witness ==
    /\ isr.pc = "stepped"
    /\ Cardinality(lastCycle.headTime) >= 2
    /\ lastCycle.headTime \subseteq lastCycle.stepped

\* C6: in a cycle that checks endstops, a DM the check removed from the
\* active list is not among the DMs stepped (CalcNextStepTime) and none of
\* its drivers is pulsed; the DMs stepped are those due after the check.
RemovedByCheckNotStepped ==
    lastCycle.checked
        => /\ lastCycle.removed \cap lastCycle.stepped = {}
           /\ DriversOfAll(lastCycle.removed) \cap lastCycle.pulsed = {}
           /\ lastCycle.stepped = lastCycle.dueAll

\* C6 witness: the check removed a due DM and another DM was still stepped
RemovedByCheckNotStepped_Witness ==
    /\ isr.pc = "stepped"
    /\ lastCycle.checked
    /\ lastCycle.removed \cap lastCycle.due0 # {}
    /\ lastCycle.stepped # {}

\* C7: a drive an endstop stop removed from the active list is absent from
\* it, and its recorded motor position, GetCurrentMotorPosition and the net
\* steps pulsed on each of its enabled drivers are the same number.
EndstopAbortConsistent ==
    \A d \in stoppedDrives \cap LogicalDrives :
        /\ d \notin ActiveSet
        /\ motorPositionsAfterScheduledMoves[d] = GetCurrentMotorPosition(dms[d])
        /\ \A drv \in GetDriversBitmap(d) \cap steppingEnabled :
               motorSteps[drv] = motorPositionsAfterScheduledMoves[d]

\* C7 witness: a drive was stopped by an endstop after it had taken steps
EndstopAbortConsistent_Witness ==
    \E d \in stoppedDrives \cap LogicalDrives :
        /\ motorPositionsAfterScheduledMoves[d] # 0
        /\ \E drv \in GetDriversBitmap(d) : motorSteps[drv] # 0

\* C8 as stated: every DM stepped in a cycle has a pulse on each of its
\* drivers, also on one that a stop-driver action has disabled, so that each
\* driver has been pulsed as many steps as the DM's position counts.
EveryAdvanceIsPulsed ==
    /\ \A d \in lastCycle.stepped : GetDriversBitmap(d) \subseteq lastCycle.pulsed
    /\ \A d \in Drives : \A drv \in GetDriversBitmap(d) : motorSteps[drv] = dms[d].motorPos

\* C8 amended: every DM stepped in a cycle has a pulse on each of its drivers
\* that is stepping-enabled, and on no other driver is a pulse emitted; each
\* enabled driver has been pulsed as many steps as the DM's position counts.
EveryAdvanceIsPulsedIfEnabled ==
    /\ \A d \in lastCycle.stepped :
           GetDriversBitmap(d) \cap lastCycle.enabled \subseteq lastCycle.pulsed
    /\ lastCycle.pulsed \subseteq DriversOfAll(lastCycle.stepped) \cap lastCycle.enabled
    /\ \A d \in Drives : \A drv \in GetDriversBitmap(d) \cap steppingEnabled :
           motorSteps[drv] = dms[d].motorPos

\* C8 witness: a DM was stepped while one of its two drivers was disabled
EveryAdvanceIsPulsedIfEnabled_Witness ==
    /\ isr.pc = "stepped"
    /\ \E d \in lastCycle.stepped :
           /\ GetDriversBitmap(d) \cap lastCycle.pulsed # {}
           /\ GetDriversBitmap(d) \ lastCycle.enabled # {}

\* The members of sequence s that are in set S, in the order of s
RECURSIVE Restrict(_, _)
Restrict(s, S) ==
    IF s = <<>> THEN <<>>
    ELSE IF Head(s) \in S THEN <<Head(s)>> \o Restrict(Tail(s), S)
    ELSE Restrict(Tail(s), S)

\* C9: after a StepDrivers cycle stepErrors has grown by one for each stepped
\* DM left in a step-error state; those DMs are idle and out of the list, the
\* other stepped DMs are in the list if in a motion state and idle without an
\* error counted if finished, and the DMs not due keep their order.
StepErrorIsLocal ==
    isr.pc = "stepped"
        => /\ stepErrors = lastCycle.stepErrorsBefore + Cardinality(lastCycle.errors)
           /\ \A d \in lastCycle.errors : dms[d].state = "idle" /\ d \notin ActiveSet
           /\ \A d \in lastCycle.finished : dms[d].state = "idle" /\ d \notin ActiveSet
           /\ \A d \in lastCycle.stepped \ (lastCycle.errors \cup lastCycle.finished) :
                  IsMotionState(dms[d].state) /\ d \in ActiveSet
           /\ Restrict(ActiveList(dms, activeDMs), SeqToSet(lastCycle.rest)) = lastCycle.rest

\* C9 witness: a cycle found a step error on one DM and re-inserted another
StepErrorIsLocal_Witness ==
    /\ isr.pc = "stepped"
    /\ lastCycle.errors # {}
    /\ (lastCycle.stepped \ lastCycle.errors) \cap ActiveSet # {}

\* C10: numHiccups grows only by one at a time, and only when the ISR finds the
\* next step already due at least MaxStepInterruptTime after it started; the
\* delay added is HiccupTime first and HiccupIncrement more on each retry,
\* and the hiccup loop ends only by arming the timer and leaving the ISR.
HiccupOnlyWhenOverrun ==
    [][/\ numHiccups' # numHiccups
          => /\ numHiccups' = numHiccups + 1
             /\ isr.pc = "stepped"
             /\ activeDMs # NULL
             /\ CallbackAlreadyDue(MovementNow, dms[activeDMs].nextStepTime)
             /\ SDiff(MovementNow, isr.isrStartTime) >= MaxStepInterruptTime
             /\ isr'.pc = "hiccup" /\ isr'.hiccupTime = HiccupTime
       /\ movementDelay' # movementDelay
          => /\ isr.pc = "hiccup"
             /\ movementDelay' = (movementDelay + isr.hiccupTime) % Modulus
             /\ \/ isr'.pc = "idle" /\ timer'.armed
                \/ /\ isr'.pc = "hiccup"
                   /\ isr'.hiccupTime = isr.hiccupTime + HiccupIncrement
                   /\ ~timer'.armed
       /\ isr.pc = "hiccup" => isr'.pc \in {"hiccup", "idle"} /\ UNCHANGED <<dms, motorSteps>>
      ]_vars

\* C10 witness: a hiccup needed a retry with a longer delay before the timer
\* could be armed
HiccupOnlyWhenOverrun_Witness ==
    /\ numHiccups >= 1
    /\ movementDelay > HiccupTime
    /\ isr.pc = "idle"
    /\ timer.armed

\* C11: handling a hiccup changes only numHiccups and the movement delay: the
\* active list, every DM (step index, segment chain, position) and the steps
\* pulsed stay as they are, and each pass of the hiccup loop makes the head's
\* step due strictly later on the movement clock than it was.
HiccupKeepsSteps ==
    [][/\ numHiccups' # numHiccups
          => UNCHANGED <<dms, activeDMs, motorSteps, stepErrors, directionPins,
                         motorPositionsAfterScheduledMoves, movementDelay>>
       /\ (isr.pc = "hiccup" /\ isr' # isr)
          => /\ UNCHANGED <<dms, activeDMs, motorSteps, stepErrors, directionPins,
                            motorPositionsAfterScheduledMoves, numHiccups>>
             /\ SDiff(dms[activeDMs].nextStepTime, GetMovementTimerTicks(ticks', movementDelay'))
                  > SDiff(dms[activeDMs].nextStepTime, MovementNow)
      ]_vars

\* C11 witness: after a hiccup the list has drained and a drive has finished
\* its move
HiccupKeepsSteps_Witness ==
    /\ numHiccups >= 1
    /\ isr.pc = "idle"
    /\ activeDMs = NULL
    /\ \E d \in Drives : dms[d].motorPos # 0 /\ dms[d].segments = <<>>
                         /\ d \notin stoppedDrives

InterruptExitsArmedOrEmpty ==
    [][/\ (isr.pc # "idle" /\ isr'.pc = "idle")
          => \/ activeDMs' = NULL
             \/ /\ timer'.armed
                /\ timer'.when = dms'[activeDMs'].nextStepTime
                /\ SDiff(GetMovementTimerTicks(ticks', movementDelay'), timer'.when) < 0
       /\ (/\ isr.pc = "stepped" /\ isr' # isr /\ activeDMs # NULL
           /\ SDiff(MovementNow, dms[activeDMs].nextStepTime) >= 0
           /\ SDiff(MovementNow, isr.isrStartTime) < MaxStepInterruptTime)
          => isr'.pc = "step" /\ isr'.now = MovementNow /\ ~timer'.armed
      ]_vars

\* C13 witness: the ISR has gone round its loop and is stepping a second time
InterruptExitsArmedOrEmpty_Witness ==
    isr.pc = "step" /\ isr.now # isr.isrStartTime

\* The call of AddLinearSegments the task has just made was without shaping
UnshapedCallMade == task.pc = "added" /\ ~task.move.useInputShaping
ShapedCallMade == task.pc = "added" /\ task.move.useInputShaping

\* C14: without shaping at most three segments are added, the accelerating
\* one (a > 0) before the steady one (a = 0) before the decelerating one
\* (a < 0), and each of them exactly when its phase's clock count is not zero.
UnshapedPhasesByDuration ==
    UnshapedCallMade
        => LET c == task.calls
               p == task.move.params
           IN  /\ Len(c) <= 3
               /\ \A i \in 1 .. Len(c) : \A j \in 1 .. Len(c) : i < j => c[i].a > c[j].a
               /\ (\E i \in 1 .. Len(c) : c[i].a > 0) <=> (p.accelClocks # 0)
               /\ (\E i \in 1 .. Len(c) : c[i].a = 0) <=> (p.steadyClocks # 0)
               /\ (\E i \in 1 .. Len(c) : c[i].a < 0) <=> (p.decelClocks # 0)

\* C14 witness: a profile without a steady phase gave two segments
UnshapedPhasesByDuration_Witness ==
    /\ UnshapedCallMade
    /\ Len(task.calls) = 2
    /\ task.move.params.steadyClocks = 0

RECURSIVE SumDistance(_)
SumDistance(c) == IF c = <<>> THEN 0 ELSE Head(c).distance + SumDistance(Tail(c))

\* C16: with or without shaping, the distances of the segments added for a
\* drive sum to totalDistance * stepsPerMm.
DistanceIntegralPreserved ==
    task.pc = "added"
        => SumDistance(task.calls)
             = task.move.params.totalDistance * task.move.stepsPerMm[task.drive + 1]

\* C16 witness: a shaped move of three impulses with all three phases
DistanceIntegralPreserved_Witness ==
    /\ ShapedCallMade
    /\ Len(task.calls) = 9
    /\ task.move.params.accelDistance > 0
    /\ DecelDistance(task.move.params) > 0

SchedulingNewChain == task.pc = "added" /\ task' # task /\ task.oldSegsNull

\* C18: when AddLinearSegments has added segments to a drive that had none
\* and ScheduleFirstSegment succeeds, the DM is in the active list once and
\* the other members keep their order; if it was inserted at the head the
\* timer is armed for its step time or, if that is already due, the step
\* handler is entered at once; otherwise timer and ISR are left alone.
ScheduleInsertsOnce ==
    [][(SchedulingNewChain /\ IsMotionState(ScheduleFirstSegment(dms[task.drive]).state))
         => LET d == task.drive
                before == ActiveList(dms, activeDMs)
                after == ActiveList(dms', activeDMs')
            IN  /\ d \in SeqToSet(after)
                /\ Len(after) = Cardinality(SeqToSet(after))
                /\ IF d \in SeqToSet(before)
                   THEN after = before
                   ELSE Len(after) = Len(before) + 1
                        /\ Restrict(after, SeqToSet(before)) = before
                /\ IF activeDMs' = d /\ d \notin SeqToSet(before)
                   THEN IF SDiff(MovementNow, dms'[d].nextStepTime) >= 0
                        THEN isr'.pc = "step" /\ ~timer'.armed
                        ELSE /\ timer' = [armed |-> TRUE, when |-> dms'[d].nextStepTime]
                             /\ isr' = isr
                   ELSE timer' = timer /\ isr' = isr
      ]_vars

\* C18 witness: a drive added later became the head of a list of two with its
\* first step already due, and the step handler was entered before any step
ScheduleInsertsOnce_Witness ==
    /\ isr.pc = "step"
    /\ Len(ActiveList(dms, activeDMs)) >= 2
    /\ activeDMs = task.drive \/ task.pc = "idle"
    /\ \A drv \in Drivers : motorSteps[drv] = 0
    /\ ~timer.armed

\* C19 as stated: whenever scheduling the first segment of a new chain fails,
\* the DM is idle, stepErrors has grown by one, the DM is not in the list and
\* the timer is as it was.
ScheduleFailureCountsError ==
    [][(SchedulingNewChain /\ ~IsMotionState(ScheduleFirstSegment(dms[task.drive]).state))
         => /\ dms'[task.drive].state = "idle"
            /\ stepErrors' = stepErrors + 1
            /\ task.drive \notin SeqToSet(ActiveList(dms', activeDMs'))
            /\ timer' = timer
      ]_vars

\* C19 amended: whenever scheduling the first segment of a new chain fails,
\* the DM is idle, not in the list, and list, timer and ISR are as they were;
\* stepErrors has grown by one if the failure left the DM in a state other
\* than idle, and is unchanged if it left the DM idle.
ScheduleFailureHandled ==
    [][(SchedulingNewChain /\ ~IsMotionState(ScheduleFirstSegment(dms[task.drive]).state))
         => /\ dms'[task.drive].state = "idle"
            /\ stepErrors' = stepErrors
                 + (IF ScheduleFirstSegment(dms[task.drive]).state # "idle" THEN 1 ELSE 0)
            /\ task.drive \notin SeqToSet(ActiveList(dms', activeDMs'))
            /\ activeDMs' = activeDMs
            /\ timer' = timer
            /\ isr' = isr
      ]_vars

\* C19 witness: a scheduling failure has been counted before any step was taken
ScheduleFailureHandled_Witness ==
    /\ stepErrors = 1
    /\ task.pc # "added"
    /\ \A d \in Drives : dms[d].motorPos = 0
    /\ \E d \in Drives : dms[d].state = "idle" /\ dms[d].segments # <<>>

\* C20: when AddLinearSegments adds segments to a drive that already has
\* segments, both the adding of the segments and the rest of the call leave
\* the active list (head, members and order), the drive's nextStepTime and
\* state, the timer and stepErrors as they were.
AppendLeavesScheduleAlone ==
    [][((task'.pc = "added" /\ task.pc # "added" /\ dms[task'.drive].segments # <<>>)
        \/ (task.pc = "added" /\ task' # task /\ Len(dms[task.drive].segments) > Len(task.calls)))
         => LET d == IF task.pc = "added" THEN task.drive ELSE task'.drive
            IN  /\ activeDMs' = activeDMs
                /\ ActiveList(dms', activeDMs') = ActiveList(dms, activeDMs)
                /\ dms'[d].nextStepTime = dms[d].nextStepTime
                /\ dms'[d].state = dms[d].state
                /\ timer' = timer
                /\ stepErrors' = stepErrors
      ]_vars

\* C20 witness: segments of a second move have been added behind those a
\* moving drive is still working on, with the timer armed for the list
AppendLeavesScheduleAlone_Witness ==
    /\ task.pc = "added"
    /\ ~task.oldSegsNull
    /\ movesAdded = 2
    /\ task.drive \in SeqToSet(ActiveList(dms, activeDMs))
    /\ Len(dms[task.drive].segments) > Len(task.calls)
    /\ timer.armed

\* The nodes context c owns: its chain, the rest of a chain it is releasing,
\* and a node it has unlinked from the free list
Held(c) ==
    SeqToSet(ChainOf(segNext, alloc[c].chain))
    \cup (IF alloc[c].pc = "release" THEN SeqToSet(ChainOf(segNext, alloc[c].item)) ELSE {})
    \cup (IF alloc[c].pc = "link" THEN {alloc[c].ms} ELSE {})

FreeNodes == SeqToSet(ChainOf(segNext, freeList))

NoNodeOwnedTwice ==
    /\ Held("task") \cap Held("isr") = {}
    /\ FreeNodes \cap (Held("task") \cup Held("isr")) = {}
    /\ Len(ChainOf(segNext, freeList)) = Cardinality(FreeNodes)
    /\ \A c \in Contexts :
         Len(ChainOf(segNext, alloc[c].chain))
            = Cardinality(SeqToSet(ChainOf(segNext, alloc[c].chain)))

\* C21: under every interleaving of Allocate and ReleaseAll in the task and
\* in the ISR, no node is held by both contexts or held while on the free
\* list, no chain holds a node twice, and numCreated grows only by one and
\* only when the free list is empty.
SegmentOwnedOnce ==
    [][/\ NoNodeOwnedTwice'
       /\ numCreated' # numCreated => numCreated' = numCreated + 1 /\ freeList = NULL
      ]_vars

\* C21 witness: the ISR has taken a node from the free list while the task,
\* which released it, holds another node
SegmentOwnedOnce_Witness ==
    /\ alloc["isr"].pc = "link"
    /\ alloc["task"].chain # NULL
    /\ numCreated >= 2

\* The list as the step ISR expects it: in step-time order, and holding
\* exactly the DMs in a motion state
ListWellFormed ==
    /\ \A i \in 1..(Len(ActiveList(dms, activeDMs)) - 1) :
         SDiff(dms[ActiveList(dms, activeDMs)[i + 1]].nextStepTime,
               dms[ActiveList(dms, activeDMs)[i]].nextStepTime) >= 0
    /\ \A d \in Drives :
         d \in SeqToSet(ActiveList(dms, activeDMs)) <=> IsMotionState(dms[d].state)

EmergencyStopEmptiesList ==
    [][task.pc = "terminated"
         => /\ activeDMs = NULL
            /\ motorSteps' = motorSteps
            /\ movesAdded' = movesAdded
            /\ task'.pc = "terminated"
      ]_vars

\* A step issued after MoveLoop has seen the stop and terminated, the timer
\* interrupt being still enabled
StepAfterTermination ==
    /\ task.pc = "terminated"
    /\ ~halt.exited
    /\ isr.pc = "stepped"
    /\ lastCycle.pulsed # {}

\* C24: the motors are put in idle hold, and moveState becomes idle, only
\* from the timing state with the rings idle, at least idleTimeout
\* milliseconds after the timing state was entered and with no move added
\* since; the timing state is entered only from executing; and an idle test
\* that finds a ring busy leaves moveState executing.
IdleHoldOnlyAfterTimeout ==
    [][/\ (loop'.driversIdle /\ ~loop.driversIdle) \/ (loop'.moveState = "idle" /\ loop.moveState # "idle")
            => /\ loop.moveState = "timing" /\ loop'.moveState = "idle" /\ loop'.driversIdle
               /\ loop.ringsIdle
               /\ loop.sinceTiming >= DefaultIdleTimeout
               /\ ~loop.busySinceTiming
       /\ (loop'.moveState = "timing" /\ loop.moveState # "timing")
            => loop.moveState = "executing" /\ loop.ringsIdle /\ loop'.sinceTiming = 0
       /\ (loop.pc = "check" /\ loop'.pc = "read" /\ ~loop.ringsIdle)
            => loop'.moveState = "executing"
      ]_vars

\* C24 witness: the motors have been put in idle hold after a wait in which
\* the millisecond clock wrapped
IdleHoldOnlyAfterTimeout_Witness ==
    /\ loop.driversIdle
    /\ loop.moveState = "idle"
    /\ loop.sinceTiming >= DefaultIdleTimeout
    /\ loop.millis < loop.whenIdleTimerStarted

\* C25 as stated: the direction output of a slow driver changes only when at
\* least the direction setup time has passed since the falling edge of the
\* last step pulse, and a step pulse rises only when at least the direction
\* hold time has passed since the last change of direction.
DirectionSetupBeforeHoldAfter ==
    [][/\ pins'.dir # pins.dir => pins.sinceFall >= SlowDriverDirSetupClocks
       /\ (pins'.step /\ ~pins.step)
            => pins.sinceDir >= SlowDriverDirHoldClocksFromTrailingEdge
      ]_vars

\* C25 amended: the direction output of a slow driver changes only when at
\* least the direction hold time has passed since the falling edge of the
\* last step pulse, and a step pulse rises only when at least the direction
\* setup time has passed since the last change of direction.
DirectionHoldBeforeSetupAfter ==
    [][/\ pins'.dir # pins.dir => pins.sinceFall >= SlowDriverDirHoldClocksFromTrailingEdge
       /\ (pins'.step /\ ~pins.step) => pins.sinceDir >= SlowDriverDirSetupClocks
      ]_vars

\* C25 witness: a step pulse has just risen, the setup time and no more after
\* a change of direction that was made the hold time after the pulse before
DirectionHoldBeforeSetupAfter_Witness ==
    /\ pins.pc = "high"
    /\ pins.step
    /\ ~pins.dir
    /\ pins.sinceDir = SlowDriverDirSetupClocks
    /\ pins.sinceFall = SlowDriverDirSetupClocks + SlowDriverDirHoldClocksFromTrailingEdge
    /\ pins.raw < pins.lastDirChangeTime

\* C26: straight after StepDrivers every DM it stepped and re-inserted has
\* directionChanged clear and its direction output at the DM's direction; and
\* a DM in the list with the flag clear always has its output at its
\* direction, so a re-inserted DM is never pulsed before the change is made.
ReinsertedDirectionSet ==
    /\ isr.pc = "stepped"
         => \A d \in lastCycle.stepped \cap SeqToSet(ActiveList(dms, activeDMs)) :
              ~dms[d].directionChanged /\ directionPins[d] = dms[d].direction
    /\ \A d \in SeqToSet(ActiveList(dms, activeDMs)) :
         ~dms[d].directionChanged => directionPins[d] = dms[d].direction

\* C26 witness: a DM that had moved forwards met a reversed segment in this
\* cycle and was re-inserted with its output set backwards
ReinsertedDirectionSet_Witness ==
    /\ isr.pc = "stepped"
    /\ \E d \in lastCycle.stepped \cap SeqToSet(ActiveList(dms, activeDMs)) :
         /\ lastCycle.pulseDir[d] = 1
         /\ ~dms[d].direction
         /\ ~directionPins[d]
         /\ ~dms[d].directionChanged

\* C27: Diagnostics loses no count: the values of stepErrors and numHiccups
\* it sets to zero are the values it has reported, and both are zero
\* straight after.
DiagnosticsLosesNothing ==
    [][(diag.pc = "reported" /\ diag'.pc = "idle")
         => /\ stepErrors = diag.stepErrors
            /\ numHiccups = diag.numHiccups
            /\ stepErrors' = 0
            /\ numHiccups' = 0
      ]_vars

ActiveListDrains ==
    /\ (activeDMs # NULL) ~> (activeDMs = NULL)
    /\ \A d \in Drives :
         (d \in SeqToSet(ActiveList(dms, activeDMs)))
            ~> (d \notin SeqToSet(ActiveList(dms, activeDMs)))

\* C29 witness: all moves have been added, two DMs are in the list and the
\* timer is armed for the head
ActiveListDrains_Witness ==
    /\ movesAdded = MaxMoves
    /\ task.pc = "idle"
    /\ Len(ActiveList(dms, activeDMs)) >= 2
    /\ timer.armed
    /\ isr.pc = "idle"

\* C30: a hiccup loop once entered ends with the timer armed and Interrupt
\* returned, whatever the step times and whatever delay up to MaxRetryDelay
\* passes between two passes of the loop.
HiccupLoopTerminates ==
    (isr.pc = "hiccup") ~> (isr.pc = "idle" /\ timer.armed)

\* C30 witness: the loop has gone round more than once
HiccupLoopTerminates_Witness ==
    /\ isr.pc = "hiccup"
    /\ isr.hiccupTime > HiccupTime + HiccupIncrement

\* C31: DeactivateDM applied to the active list as it stands, for any DM:
\* if the DM is listed, the list afterwards is the list before without it,
\* in the same order, the DM is idle and no other DM's state changes; if it
\* is not listed, neither the list nor any DM changes.
DeactivateRemovesOnlyTarget ==
    \A dm \in Drives :
      LET before == ActiveList(dms, activeDMs)
          r == DeactivateDM(dms, activeDMs, dm)
          after == ActiveList(r.dms, r.activeDMs)
      IN  IF dm \in SeqToSet(before)
          THEN /\ after = SelectSeq(before, LAMBDA x : x # dm)
               /\ r.dms[dm].state = "idle"
               /\ \A e \in Drives \ {dm} : r.dms[e].state = dms[e].state
          ELSE /\ r.dms = dms
               /\ r.activeDMs = activeDMs

\* C31 witness: an endstop check has taken a DM out of a list in which other
\* DMs remain
DeactivateRemovesOnlyTarget_Witness ==
    /\ lastCycle.removed # {}
    /\ Len(ActiveList(dms, activeDMs)) >= 1
    /\ \E d \in lastCycle.removed : dms[d].state = "idle"

\* C32 as stated: when an endstop check handles a stop-all hit, in the step
\* interrupt's StepDrivers or on a change of endstop state, no DM is in the
\* active list once the check has returned, the DMs of the direct-driver
\* slots included.
StopAllEmptiesList ==
    [][\A hits \in HitReports :
         (/\ hits # <<>>
          /\ Head(hits).action = "stopAll"
          /\ OnEndstopOrZProbeStatesChanged(hits))
            => activeDMs' = NULL]_vars

\* A step in which a call of GetAccumulatedExtrusion returns, from Spin or
\* from the interrupt
ExtrusionCallReturns ==
    /\ extr'.pc = "idle"
    /\ extr.pc = "adjusted" \/ (extr.pc = "idle" /\ extr' # extr)

AdvancedDMs(m, n) == { d \in Drives : n.dms[d].motorPos # m.dms[d].motorPos }

\* C34 as stated: from any active list that simulation reaches, also one
\* whose step times straddle the wrap of the tick counter,
\* SimulateSteppingDrivers advances the DMs that StepDrivers advances when
\* called at the head's step time, and leaves the same list in the same order.
SimulationMatchesStepDrivers ==
    (activeDMs # NULL /\ task.pc = "idle")
      => LET s == SimulateSteppingDrivers(Machine)
             now == dms[activeDMs].nextStepTime
             r == StepDrivers(Machine, now, now, <<>>).m
         IN  /\ AdvancedDMs(Machine, s) = AdvancedDMs(Machine, r)
             /\ ActiveList(s.dms, s.activeDMs) = ActiveList(r.dms, r.activeDMs)

\* C35 as stated: the cache is marked valid only by a fetch during which no
\* drive had motion pending and no segments were added, and a call made more
\* than the cache time after the last fetch, segments having been added since
\* that fetch, computes the coordinates afresh.
LiveCoordinatesNeverStale ==
    live.pc = "returned"
      => /\ (live.served = "fresh" /\ live.markedValid)
               => (~live.motionPending /\ ~live.addedDuringFetch)
         /\ (live.addedSinceFetch /\ live.ageAtCall > LiveCoordinatesMaxAge)
               => live.served = "fresh"

\* C36 as stated: a pass of MoveLoop's idle test made while the print is
\* paused neither puts the motors in idle hold nor sets moveState to idle,
\* whatever moveState was when the pause began.
NoIdleHoldWhilePaused ==
    [][(loop.paused /\ loop.pc = "check" /\ loop'.pc = "read")
         => /\ loop'.driversIdle => loop.driversIdle
            /\ loop'.moveState = "idle" => loop.moveState = "idle"
      ]_vars

\* C37 as stated: when AddLinearSegments returns, however the step interrupt
\* has come in since the drive's segment pointer was sampled, a drive that
\* holds segments is in the active list in a motion state or a step error has
\* been recorded; it is not left idle, out of the list and holding segments.
SegmentsNeverStranded ==
    [][(task.pc = "added" /\ task'.pc # "added")
         => LET d == task.drive
            IN  dms'[d].segments # <<>>
                  => \/ /\ d \in SeqToSet(ActiveList(dms', activeDMs'))
                        /\ IsMotionState(dms'[d].state)
                     \/ stepErrors' > 0
      ]_vars

\* C38: after any sequence of AddLinearSegments, Interrupt, StepDrivers,
\* SimulateSteppingDrivers and DeactivateDM the chain from activeDMs through
\* nextDM ends at null within as many links as there are DMs and holds no DM
\* twice.
ActiveListAcyclic ==
    LET list == ActiveList(dms, activeDMs)
    IN  /\ Len(list) <= Cardinality(Drives)
        /\ \A i, j \in 1 .. Len(list) : list[i] = list[j] => i = j
        /\ list # <<>> => dms[list[Len(list)]].nextDM = NULL

\* C38 witness: StepDrivers has taken two DMs out of the list and put them
\* back, the second behind the first
ActiveListAcyclic_Witness ==
    LET list == ActiveList(dms, activeDMs)
    IN  /\ Len(list) >= 2
        /\ Cardinality(lastCycle.stepped) = 2
        /\ SDiff(dms[list[1]].nextStepTime, dms[list[2]].nextStepTime) < 0

\* The movement time and the step times as they would be on a counter that
\* never wraps: the ticks since the timer was started less the hiccup delay,
\* and for a wrapped time the one value within half the counter's range of now
TrueNow == TimerStart + elapsed - movementDelay
TrueTime(t) == TrueNow + SDiff(t, MovementNow)
TrueStepTime(d) == TrueTime(dms[d].nextStepTime)

\* All pending step times lie within half the counter's range of each other
WithinHalfRange ==
    \A d, e \in ActiveSet : TrueStepTime(d) - TrueStepTime(e) < HalfModulus

\* C39: while the pending step times and now lie within half the counter's
\* range of each other, also when some lie before the wrap of the tick counter
\* and some after it, the active list is in the order of the true step times,
\* and a call of StepDrivers that makes no endstop check steps exactly the DMs
\* whose true step time is not later than the true time it was given as now.
WrapSafeScheduling ==
    [][/\ WithinHalfRange'
            => LET l == ActiveList(dms', activeDMs')
               IN  \A i, j \in 1 .. Len(l) :
                       i < j => TrueNow' + SDiff(dms'[l[i]].nextStepTime, MovementNow')
                                  <= TrueNow' + SDiff(dms'[l[j]].nextStepTime, MovementNow')
       /\ (isr.pc = "step" /\ isr'.pc = "stepped" /\ ~lastCycle'.checked /\ WithinHalfRange)
            => lastCycle'.stepped
                  = { d \in ActiveSet : TrueStepTime(d) <= TrueTime(isr.now) }
      ]_vars

\* C39 witness: StepDrivers has run after the tick counter wrapped, and the
\* list it leaves holds a step time from before the wrap ahead of one from
\* after it
WrapSafeScheduling_Witness ==
    LET l == ActiveList(dms, activeDMs)
    IN  /\ isr.pc = "stepped"
        /\ MovementNow < HalfModulus
        /\ lastCycle.stepped # {}
        /\ Len(l) >= 2
        /\ dms[l[1]].nextStepTime >= HalfModulus
        /\ dms[l[2]].nextStepTime < HalfModulus

\* C40: with simulation off, whenever the step ISR is not running and the
\* active list is not empty, the timer is armed for a time that is not later
\* than the head's step time: after AddLinearSegments has inserted a DM at the
\* head or behind it, after Interrupt has returned with or without a hiccup,
\* and after an endstop stop has removed the head.
HeadStepHasPendingInterrupt ==
    (isr.pc = "idle" /\ activeDMs # NULL)
      => /\ timer.armed
         /\ SDiff(timer.when, dms[activeDMs].nextStepTime) <= 0

\* C40 witness: an endstop stop made from the task has removed the head, and
\* the timer is still armed for the step time of the DM that was removed,
\* which is earlier than the new head's
HeadStepHasPendingInterrupt_Witness ==
    /\ isr.pc = "idle"
    /\ activeDMs # NULL
    /\ stoppedDrives # {}
    /\ timer.armed
    /\ SDiff(timer.when, dms[activeDMs].nextStepTime) < 0

====
